---- MODULE Spec2Model ----
\* Model of the DICOM pixel-data pipeline of jots-dicom-importer:
\* DICOMService.extractPixelData / extractJPEG2000Data /
\* extractJPEGLosslessData / convertRawToImage and the decode steps of
\* convertToImage (src/src/services/dicom-service.ts).
\*
\* Byte buffers are sequences of integers 0..255; the JavaScript index i of a
\* buffer is element i + 1 of the sequence.  A Buffer made by
\* Buffer.from(arrayBuffer, offset, length) is a VIEW of the ArrayBuffer, so it
\* is kept as (byteOffset, length) and its contents are read from the backing
\* byteArray at the time of use.
EXTENDS Integers, Sequences, FiniteSets, TLC

\* ------------------------------------------------------------------ bounds
MaxPixelBytes == 4
MaxRows == 1
MaxColumns == 2
MaxPayload == 2
MaxChunks == 4
MaxCalls == 2
MaxChunkData == 3
MaxTasks == 2
MaxFiles == 3
MaxSeries == 2
MaxImports == 2

\* ------------------------------------------------- transfer syntax UIDs
ExplicitVRLittleEndian == "1.2.840.10008.1.2.1"
ImplicitVRLittleEndian == "1.2.840.10008.1.2"
ExplicitVRBigEndian == "1.2.840.10008.1.2.2"
JPEG2000Lossless == "1.2.840.10008.1.2.4.90"
JPEG2000Lossy == "1.2.840.10008.1.2.4.91"
JPEGLossless == "1.2.840.10008.1.2.4.70"
\* a UID the service has no branch for (JPEG Baseline), and an absent element:
\* dicomData.string() returns undefined when the tag is missing
JPEGBaseline == "1.2.840.10008.1.2.4.50"
UndefinedUID == "undefined"

UncompressedSyntaxes ==
    {ExplicitVRLittleEndian, ImplicitVRLittleEndian, ExplicitVRBigEndian}
JPEG2000Syntaxes == {JPEG2000Lossless, JPEG2000Lossy}
RecognisedSyntaxes ==
    UncompressedSyntaxes \cup JPEG2000Syntaxes \cup {JPEGLossless}
UnknownSyntaxes == {JPEGBaseline, UndefinedUID}

\* ------------------------------------------------------- byte-level helpers
\* value of byteArray[pos] when pos is outside the array (JavaScript undefined)
Undefined == -1

\* typed-array read byteArray[pos]
At(b, pos) == IF pos >= 0 /\ pos < Len(b) THEN b[pos + 1] ELSE Undefined

\* an undefined operand of | and << is ToInt32(undefined) = 0
Bits(v) == IF v = Undefined THEN 0 ELSE v

\* byteArray[position..position+3] === FE FF 00 E0, the item tag (FFFE,E000)
IsItemTag(b, position) ==
    /\ At(b, position) = 254
    /\ At(b, position + 1) = 255
    /\ At(b, position + 2) = 0
    /\ At(b, position + 3) = 224

\* b4 | b5 << 8 | b6 << 16 | b7 << 24 : the bitwise operators work on signed
\* 32-bit integers, so a top byte >= 0x80 makes the result negative
ReadItemLength(b, position) ==
    LET b4 == Bits(At(b, position + 4))
        b5 == Bits(At(b, position + 5))
        b6 == Bits(At(b, position + 6))
        b7 == Bits(At(b, position + 7))
        top == IF b7 >= 128 THEN b7 - 256 ELSE b7
    IN  b4 + 256 * b5 + 65536 * b6 + 16777216 * top

\* outcome of Buffer.from(arrayBuffer, byteOffset, length) on an ArrayBuffer of
\* size bytes: a view, or a RangeError when the range leaves the ArrayBuffer;
\* a length that is not positive gives an empty view
BufferFrom(size, byteOffset, length) ==
    IF byteOffset < 0 \/ size - byteOffset < 0
        THEN [ok |-> FALSE, byteOffset |-> 0, length |-> 0]
    ELSE IF length > 0 /\ length > size - byteOffset
        THEN [ok |-> FALSE, byteOffset |-> 0, length |-> 0]
    ELSE [ok |-> TRUE, byteOffset |-> byteOffset,
          length |-> IF length > 0 THEN length ELSE 0]

\* the bytes a view shows of its backing array
ViewBytes(b, byteOffset, length) ==
    SubSeq(b, byteOffset + 1, byteOffset + length)

\* ----------------------------------------------- extractPixelData results
NoError == "none"
NoPixelDataError == "No pixel data found in DICOM file"
UnsupportedTransferSyntaxError == "Unsupported transfer syntax"
NoJPEG2000StreamError == "Could not find JPEG2000 stream after Basic Offset Table"
NoJPEGLosslessFrameError == "Could not find valid JPEG Lossless frame in DICOM data"
BufferRangeError == "RangeError: out of range"

Thrown(e) ==
    [status |-> "error", error |-> e, byteOffset |-> 0, length |-> 0,
     needsDecompression |-> FALSE]

Returned(byteOffset, length, needsDecompression) ==
    [status |-> "ok", error |-> NoError, byteOffset |-> byteOffset,
     length |-> length, needsDecompression |-> needsDecompression]

NotCalled ==
    [status |-> "none", error |-> NoError, byteOffset |-> 0, length |-> 0,
     needsDecompression |-> FALSE]

\* SwapBytes with the loop left out (the payload returned as stored)
SwapBytesNone(s) == s

\* the big-endian loop of extractPixelData on the view's bytes:
\*   for (i = 0; i < length; i += 2) { t = b[i]; b[i] = b[i+1]; b[i+1] = t }
\* on an odd length the last b[i+1] is undefined: b[i] becomes 0 and the store
\* to b[i+1] is dropped
SwapBytes(s) ==
    [k \in 1..Len(s) |->
        IF k % 2 = 1
            THEN (IF k + 1 <= Len(s) THEN s[k + 1] ELSE 0)
            ELSE s[k - 1]]

\* byteArray after the loop ran on the view (byteOffset, length)
SwapInPlace(b, byteOffset, length) ==
    LET swapped == SwapBytes(ViewBytes(b, byteOffset, length))
    IN  [k \in 1..Len(b) |->
            IF k > byteOffset /\ k <= byteOffset + length
                THEN swapped[k - byteOffset]
                ELSE b[k]]

\* --------------------------------------------------- extractJPEG2000Data
\* byteOffset of the Uint8Array parseDicomData makes over the whole ArrayBuffer
ByteOffset == 0

\* extractJPEG2000Data advancing by botLength only, the 8 bytes of the
\* offset table's own item header forgotten
extractJPEG2000DataHeaderNotSkipped(byteArray, dataOffset) ==
    LET botLength == ReadItemLength(byteArray, dataOffset)
        position ==
            IF IsItemTag(byteArray, dataOffset)
                THEN dataOffset + botLength
                ELSE dataOffset
    IN  IF position < Len(byteArray) - 8 /\ IsItemTag(byteArray, position)
            THEN LET itemLength == ReadItemLength(byteArray, position)
                     j2kData == BufferFrom(Len(byteArray),
                                           ByteOffset + position + 8, itemLength)
                 IN  IF j2kData.ok
                         THEN Returned(j2kData.byteOffset, j2kData.length, TRUE)
                         ELSE Thrown(BufferRangeError)
            ELSE Thrown(NoJPEG2000StreamError)

\* extractJPEG2000Data without the test for the item tag at position
extractJPEG2000DataTagNotTested(byteArray, dataOffset) ==
    LET botLength == ReadItemLength(byteArray, dataOffset)
        position ==
            IF IsItemTag(byteArray, dataOffset)
                THEN dataOffset + 8 + botLength
                ELSE dataOffset
    IN  IF position < Len(byteArray) - 8
            THEN LET itemLength == ReadItemLength(byteArray, position)
                     j2kData == BufferFrom(Len(byteArray),
                                           ByteOffset + position + 8, itemLength)
                 IN  IF j2kData.ok
                         THEN Returned(j2kData.byteOffset, j2kData.length, TRUE)
                         ELSE Thrown(BufferRangeError)
            ELSE Thrown(NoJPEG2000StreamError)

extractJPEG2000Data(byteArray, dataOffset) ==
    LET botLength == ReadItemLength(byteArray, dataOffset)
        position ==
            IF IsItemTag(byteArray, dataOffset)
                THEN dataOffset + 8 + botLength
                ELSE dataOffset
    IN  IF position < Len(byteArray) - 8 /\ IsItemTag(byteArray, position)
            THEN LET itemLength == ReadItemLength(byteArray, position)
                     j2kData == BufferFrom(Len(byteArray),
                                           ByteOffset + position + 8, itemLength)
                 IN  IF j2kData.ok
                         THEN Returned(j2kData.byteOffset, j2kData.length, TRUE)
                         ELSE Thrown(BufferRangeError)
            ELSE Thrown(NoJPEG2000StreamError)

\* ----------------------------------------------- extractJPEGLosslessData
\* limit of both scanning loops: while (position < byteArray.length - 2)
ScanLimit(byteArray) == Len(byteArray) - 2

\* the inner loop stopping at its first position, FF D9 there or not
FindEOIUnchecked(byteArray, endPosition) ==
    IF ~(endPosition < ScanLimit(byteArray)) THEN Undefined ELSE endPosition

\* the inner loop: the first endPosition >= from with FF D9, or Undefined
RECURSIVE FindEOI(_, _)
FindEOI(byteArray, endPosition) ==
    IF ~(endPosition < ScanLimit(byteArray)) THEN Undefined
    ELSE IF At(byteArray, endPosition) = 255 /\ At(byteArray, endPosition + 1) = 217
        THEN endPosition
    ELSE FindEOI(byteArray, endPosition + 1)

\* the outer loop
RECURSIVE ScanJPEGFrame(_, _)
ScanJPEGFrame(byteArray, position) ==
    IF ~(position < ScanLimit(byteArray))
        THEN Thrown(NoJPEGLosslessFrameError)
    ELSE IF /\ At(byteArray, position) = 255
            /\ At(byteArray, position + 1) = 216
            /\ FindEOI(byteArray, position + 2) # Undefined
        THEN LET endPosition == FindEOI(byteArray, position + 2)
                 jpegData == BufferFrom(Len(byteArray), ByteOffset + position,
                                        endPosition - position + 2)
             IN  IF jpegData.ok
                     THEN Returned(jpegData.byteOffset, jpegData.length, TRUE)
                     ELSE Thrown(BufferRangeError)
    ELSE ScanJPEGFrame(byteArray, position + 1)

extractJPEGLosslessData(byteArray, dataOffset) ==
    ScanJPEGFrame(byteArray, dataOffset)

\* ------------------------------------------------------ extractPixelData
\* the uncompressed branch of extractPixelData
ExtractRaw(d) ==
    LET buffer == BufferFrom(Len(d.byteArray), ByteOffset + d.dataOffset, d.length)
    IN  IF buffer.ok THEN Returned(buffer.byteOffset, buffer.length, FALSE)
                     ELSE Thrown(BufferRangeError)

\* extractPixelData without the test for the pixel-data element
extractPixelDataElementNotTested(d) ==
    IF d.transferSyntax \in UncompressedSyntaxes THEN ExtractRaw(d)
    ELSE IF d.transferSyntax \in JPEG2000Syntaxes
        THEN extractJPEG2000Data(d.byteArray, d.dataOffset)
    ELSE IF d.transferSyntax = JPEGLossless
        THEN extractJPEGLosslessData(d.byteArray, d.dataOffset)
    ELSE Thrown(UnsupportedTransferSyntaxError)

\* extractPixelData with a default branch: an unrecognised transfer syntax is
\* tried as JPEG 2000
extractPixelDataDefaulting(d) ==
    IF ~d.hasPixelData THEN Thrown(NoPixelDataError)
    ELSE IF d.transferSyntax \in UncompressedSyntaxes THEN ExtractRaw(d)
    ELSE IF d.transferSyntax = JPEGLossless
        THEN extractJPEGLosslessData(d.byteArray, d.dataOffset)
    ELSE extractJPEG2000Data(d.byteArray, d.dataOffset)

\* the value extractPixelData returns or the error it throws, for the parsed
\* dataset d = [byteArray, transferSyntax, hasPixelData, dataOffset, length, ..]
extractPixelData(d) ==
    IF ~d.hasPixelData THEN Thrown(NoPixelDataError)
    ELSE IF d.transferSyntax \in UncompressedSyntaxes THEN ExtractRaw(d)
    ELSE IF d.transferSyntax \in JPEG2000Syntaxes
        THEN extractJPEG2000Data(d.byteArray, d.dataOffset)
    ELSE IF d.transferSyntax = JPEGLossless
        THEN extractJPEGLosslessData(d.byteArray, d.dataOffset)
    ELSE Thrown(UnsupportedTransferSyntaxError)

\* dicomData.byteArray after the call: the returned Buffer shares the
\* ArrayBuffer, so the big-endian swap is a swap of the dataset's own bytes
ByteArrayAfterExtract(d) ==
    LET r == extractPixelData(d)
    IN  IF /\ r.status = "ok"
           /\ d.hasPixelData
           /\ d.transferSyntax = ExplicitVRBigEndian
            THEN SwapInPlace(d.byteArray, r.byteOffset, r.length)
            ELSE d.byteArray

\* ----------------------------------------------------- convertRawToImage
\* an optional dataset value: <<>> when the tag is absent, <<v>> otherwise
Absent == <<>>
Present(v) == <<v>>

\* view.getInt16(i * 2, littleEndian)
GetInt16(pixelData, i, littleEndian) ==
    LET first == pixelData[2 * i + 1]
        second == pixelData[2 * i + 2]
        unsigned == IF littleEndian THEN first + 256 * second
                                    ELSE 256 * first + second
    IN  IF unsigned >= 32768 THEN unsigned - 65536 ELSE unsigned

ReadOffsetsUnguarded(length, pixelCount) ==
    {2 * i : i \in 0..(pixelCount - 1)}

\* the byte offsets handed to view.getInt16 by the loop
\* for (i = 0; i < pixelCount && (i * 2 + 1) < pixelData.length; i++)
ReadOffsets(length, pixelCount) ==
    {2 * i : i \in {j \in 0..(pixelCount - 1) : 2 * j + 1 < length}}

\* DataView.getInt16 throws a RangeError for an offset whose two bytes are
\* not both inside the view
RangeError == "Offset is outside the bounds of the DataView"
OutsideView(length, offsets) == \E o \in offsets : o + 2 > length

\* the Int16Array pixels (zero-filled, then written where the loop reads)
ReadPixels(pixelData, pixelCount, littleEndian) ==
    [i \in 1..pixelCount |->
        IF 2 * (i - 1) \in ReadOffsets(Len(pixelData), pixelCount)
            THEN GetInt16(pixelData, i - 1, littleEndian)
            ELSE 0]

SeqMin(s, start) ==
    CHOOSE m \in {s[i] : i \in 1..Len(s)} \cup {start} :
        \A j \in 1..Len(s) : m <= s[j]
SeqMax(s, start) ==
    CHOOSE m \in {s[i] : i \in 1..Len(s)} \cup {start} :
        /\ m >= start
        /\ \A j \in 1..Len(s) : m >= s[j]

\* !windowCenter / !windowWidth : undefined and 0 are both falsy
Falsy(opt) == opt = Absent \/ opt[1] = 0

\* the window used, as [center2 |-> 2 * windowCenter, width |-> windowWidth].
\* The scan starts max at Number.MIN_VALUE, the smallest POSITIVE double, which
\* acts as 0 here: a maximum below 0 is never recorded.  (min starts at
\* Number.MAX_VALUE, above every sample.)  With no pixel at all the window is
\* never used; it is given as 0, 0 here.
Window(d, pixels) ==
    IF Falsy(d.windowCenter) \/ Falsy(d.windowWidth)
        THEN LET min == IF Len(pixels) = 0 THEN 0 ELSE SeqMin(pixels, pixels[1])
                 max == SeqMax(pixels, 0)
             IN  [center2 |-> max + min, width |-> max - min]
        ELSE [center2 |-> 2 * d.windowCenter[1], width |-> d.windowWidth[1]]

IntensityUnclamped(pixelValue, w) ==
    LET num == IF w.width < 0 THEN -(2 * pixelValue - w.center2 + w.width)
                              ELSE 2 * pixelValue - w.center2 + w.width
        den == IF w.width < 0 THEN -2 * w.width ELSE 2 * w.width
    IN  IF den = 0 THEN (IF num > 0 THEN 255 ELSE 0)
        ELSE ((2 * 255 * num + den) \div (2 * den)) % 256

\* Math.round(clamp((pixelValue - lowValue) / (highValue - lowValue)) * 255)
\* stored into a byte: with lowValue = center - width/2, highValue = center +
\* width/2 the quotient is (2*pixelValue - center2 + width) / (2*width).
\* A zero width divides by zero: +Infinity clamps to 1, -Infinity to 0, and
\* 0/0 = NaN is stored as 0.
Intensity(pixelValue, w) ==
    LET num == IF w.width < 0 THEN -(2 * pixelValue - w.center2 + w.width)
                              ELSE 2 * pixelValue - w.center2 + w.width
        den == IF w.width < 0 THEN -2 * w.width ELSE 2 * w.width
    IN  IF den = 0 THEN (IF num > 0 THEN 255 ELSE 0)
        ELSE IF num <= 0 THEN 0
        ELSE IF num >= den THEN 255
        ELSE (2 * 255 * num + den) \div (2 * den)

toBytesLittleEndian(num, bytes) ==
    LET RECURSIVE Pow256(_)
        Pow256(k) == IF k = 0 THEN 1 ELSE 256 * Pow256(k - 1)
    IN  [i \in 1..bytes |-> (num \div Pow256(i - 1)) % 256]

\* toBytes(num, bytes): big-endian, result[i] = num & 0xff; num >>= 8
toBytes(num, bytes) ==
    LET RECURSIVE Pow256(_)
        Pow256(k) == IF k = 0 THEN 1 ELSE 256 * Pow256(k - 1)
    IN  [i \in 1..bytes |-> (num \div Pow256(bytes - i)) % 256]

\* the rows scanlines: filter byte 0, then one intensity per column
ImageData(pixels, rows, columns, w) ==
    [k \in 1..(rows * (columns + 1)) |->
        LET y == (k - 1) \div (columns + 1)
            x == (k - 1) % (columns + 1)
        IN  IF x = 0 THEN 0 ELSE Intensity(pixels[y * columns + x], w)]

InvalidPixelDataLengthError == "Invalid pixel data length"

\* dicomData.uint16(BitsAllocated) || 16, with 0 standing for an absent tag
DefaultBitsAllocated == 16
BitsAllocatedOf(d) ==
    IF d.bitsAllocated = 0 THEN DefaultBitsAllocated ELSE d.bitsAllocated

\* convertRawToImage(pixelData, dicomData).  The PNG is kept as its IHDR data
\* and the scanline bytes handed to deflate (IDAT is their zlib stream, and
\* the data URL the base64 text of the chunks: both are determined by, and
\* determine, these two fields).
convertRawToImage(pixelData, d) ==
    IF 8 * Len(pixelData) < d.rows * d.columns * BitsAllocatedOf(d)
        THEN [status |-> "error", error |-> InvalidPixelDataLengthError,
              pixels |-> <<>>, ihdr |-> <<>>, imageData |-> <<>>]
    ELSE IF OutsideView(Len(pixelData),
                        ReadOffsets(Len(pixelData), d.rows * d.columns))
        THEN [status |-> "error", error |-> RangeError,
              pixels |-> <<>>, ihdr |-> <<>>, imageData |-> <<>>]
    ELSE LET littleEndian == d.transferSyntax # ExplicitVRBigEndian
             pixels == ReadPixels(pixelData, d.rows * d.columns, littleEndian)
             w == Window(d, pixels)
         IN  [status |-> "ok", error |-> NoError,
              pixels |-> pixels,
              ihdr |-> toBytes(d.columns, 4) \o toBytes(d.rows, 4)
                           \o <<8, 0, 0, 0, 0>>,
              imageData |-> ImageData(pixels, d.rows, d.columns, w)]

\* ----------------------------------------------------------- PNG encoding
\* JavaScript's bitwise operators work on 32-bit two's-complement values,
\* kept here as the integers -2^31 .. 2^31 - 1.
\* a ^ b, byte by byte
BitXor(a, b) ==
    LET Bit(x, y, p) == ((((x \div p) % 2) + ((y \div p) % 2)) % 2) * p
        Xor8(x, y) ==
            Bit(x, y, 1) + Bit(x, y, 2) + Bit(x, y, 4) + Bit(x, y, 8)
                + Bit(x, y, 16) + Bit(x, y, 32) + Bit(x, y, 64)
                + Bit(x, y, 128)
        Byte(x, p) == (x \div p) % 256
        high == Xor8(Byte(a, 16777216), Byte(b, 16777216))
    IN  ((IF high >= 128 THEN high - 256 ELSE high) * 16777216)
            + Xor8(Byte(a, 65536), Byte(b, 65536)) * 65536
            + Xor8(Byte(a, 256), Byte(b, 256)) * 256
            + Xor8(Byte(a, 1), Byte(b, 1))

\* x >>> n for 1 <= n <= 31 (the result is below 2^31)
ShiftRightUnsigned(x, n) ==
    LET RECURSIVE Pow2(_)
        Pow2(k) == IF k = 0 THEN 1 ELSE 2 * Pow2(k - 1)
        q == x \div Pow2(n)
    IN  IF q >= 0 THEN q ELSE (q + Pow2(31 - n)) + Pow2(31 - n)

\* createCRCTable(): eight steps of c = (c & 1) ? (0xedb88320 ^ (c >>> 1))
\* : (c >>> 1) for every byte value; 0xedb88320 enters ^ as the 32-bit value
\* 0xedb88320 - 2^32
createCRCTable ==
    LET polynomial == ((237 - 256) * 16777216) + 184 * 65536 + 131 * 256 + 32
        step == [c \in Int |->
                    IF c % 2 = 1
                        THEN BitXor(polynomial, ShiftRightUnsigned(c, 1))
                        ELSE ShiftRightUnsigned(c, 1)]
        RECURSIVE Steps(_, _)
        Steps(c, j) == IF j = 0 THEN c ELSE Steps(step[c], j - 1)
    IN  [i \in 0..255 |-> Steps(i, 8)]

calculateCRCNoFinalXor(data) ==
    LET step == [crc \in Int, byte \in 0..255 |->
                    BitXor(createCRCTable[BitXor(crc, byte) % 256],
                           ShiftRightUnsigned(crc, 8))]
        Update[crc \in Int, i \in Nat] ==
            IF i > Len(data) THEN crc ELSE Update[step[crc, data[i]], i + 1]
    IN  Update[-1, 1]

\* calculateCRC(data): crc starts at 0xffffffff (-1 as a 32-bit value), takes
\* crcTable[(crc ^ data[i]) & 0xff] ^ (crc >>> 8) for every byte, and is
\* returned as crc ^ 0xffffffff, a signed 32-bit value
calculateCRC(data) ==
    LET step == [crc \in Int, byte \in 0..255 |->
                    BitXor(createCRCTable[BitXor(crc, byte) % 256],
                           ShiftRightUnsigned(crc, 8))]
        Update[crc \in Int, i \in Nat] ==
            IF i > Len(data) THEN crc ELSE Update[step[crc, data[i]], i + 1]
    IN  BitXor(Update[-1, 1], -1)

\* Buffer.from(type): the ASCII codes of the chunk type
TypeBytes ==
    [IHDR |-> <<73, 72, 68, 82>>, IDAT |-> <<73, 68, 65, 84>>,
     IEND |-> <<73, 69, 78, 68>>]

createPNGChunkLengthWithHeader(type, data) ==
    toBytes(Len(data) + 12, 4) \o TypeBytes[type] \o data
        \o toBytes(calculateCRC(TypeBytes[type] \o data), 4)

\* createPNGChunk(type, data): length, type, data, CRC over type and data
createPNGChunk(type, data) ==
    toBytes(Len(data), 4) \o TypeBytes[type] \o data
        \o toBytes(calculateCRC(TypeBytes[type] \o data), 4)

\* require('zlib').deflateSync(imageData).  zlib is not part of the
\* repository; its output is a zlib stream that inflates to imageData: the
\* header 78 9C, a deflate body, and the big-endian Adler-32 of imageData.
\* The body is kept in its stored form (one final block: 01, LEN, ~LEN, the
\* bytes), which zlib replaces by a Huffman-coded block of the same content.
deflateSync(imageData) ==
    LET RECURSIVE Adler(_, _, _)
        Adler(a, b, i) ==
            IF i > Len(imageData) THEN <<b \div 256, b % 256, a \div 256, a % 256>>
            ELSE Adler((a + imageData[i]) % 65521,
                       (b + a + imageData[i]) % 65521, i + 1)
        len == Len(imageData)
    IN  <<120, 156, 1, len % 256, len \div 256,
          255 - (len % 256), 255 - (len \div 256)>>
            \o imageData \o Adler(1, 0, 1)

pngSignature == <<137, 80, 78, 71, 13, 10, 26, 10>>

\* pngData = Buffer.concat([pngSignature, ihdrChunk, idatChunk, iendChunk]),
\* from the IHDR data and the scanlines convertRawToImage has built
pngDataOf(converted) ==
    pngSignature
        \o createPNGChunk("IHDR", converted.ihdr)
        \o createPNGChunk("IDAT", deflateSync(converted.imageData))
        \o createPNGChunk("IEND", <<>>)

\* ------------------------------------------------------ getDicomConverter
TransferSyntaxMap ==
    [uid \in {JPEG2000Lossless, "default"} |->
        [utility |-> "opj_decompress", outputFormat |-> "png"]]

getDicomConverter(transferSyntaxUID) ==
    IF transferSyntaxUID \in DOMAIN TransferSyntaxMap
        THEN TransferSyntaxMap[transferSyntaxUID]
        ELSE TransferSyntaxMap["default"]

\* ------------------------------------------------------- parsed datasets
\* The inputs: what parseDicomData can hand to the service.  Every dataset is
\* the bytes before the pixel-data value (Header), the value, and what follows.
Seqs(S, n) == UNION {[1..k -> S] : k \in 0..n}

\* bytes before the pixel-data value; they end in FF D8 so that a scan that
\* started before dataOffset would show
Header == <<255, 216>>

Dataset(bytes, uid, hasPixelData, length, rows, columns, wc, ww) ==
    [byteArray |-> bytes, transferSyntax |-> uid,
     hasPixelData |-> hasPixelData,
     dataOffset |-> IF hasPixelData THEN Len(Header) ELSE 0,
     length |-> length,
     rows |-> rows, columns |-> columns, bitsAllocated |-> 0,
     windowCenter |-> wc, windowWidth |-> ww]

\* uncompressed pixel data: every byte string up to MaxPixelBytes, alone or
\* followed by one more byte of the file
PixelByteValues == {1, 2, 255}
Trailers == {<<>>, <<126>>}
Windows == {<<Absent, Absent>>, <<Present(256), Present(512)>>}

UncompressedDatasets ==
    {Dataset(Header \o px \o tr, uid, TRUE, Len(px), rows, columns, w[1], w[2]) :
        px \in Seqs(PixelByteValues, MaxPixelBytes), tr \in Trailers,
        uid \in UncompressedSyntaxes, rows \in 0..MaxRows,
        columns \in 1..MaxColumns, w \in Windows}

\* encapsulated pixel data: up to two pieces, then nothing or the sequence
\* delimitation item (FFFE,E0DD).  A piece is an item (tag, 4-byte length,
\* value bytes, the declared length free of the bytes present) or a stray byte.
ItemTag == <<254, 255, 0, 224>>
SequenceDelimitationItem == <<254, 255, 221, 224, 0, 0, 0, 0>>
LengthFields ==
    {<<0, 0, 0, 0>>, <<1, 0, 0, 0>>, <<2, 0, 0, 0>>,
     <<0, 0, 0, 128>>, <<255, 255, 255, 255>>}
Values == Seqs({170}, MaxPayload)
Items == {ItemTag \o len \o v : len \in LengthFields, v \in Values}
Pieces == Items \cup {<<>>, <<170>>}
Tails == {<<>>, SequenceDelimitationItem}

JPEG2000Datasets ==
    {Dataset(Header \o first \o second \o tail, uid, TRUE,
             Len(first) + Len(second) + Len(tail), 1, 1, Absent, Absent) :
        first \in Pieces, second \in Pieces, tail \in Tails,
        uid \in JPEG2000Syntaxes}

\* JPEG Lossless pixel data: up to MaxChunks chunks out of SOI, EOI, a data
\* byte and a lone FF, then nothing or the sequence delimitation item
Chunks == {<<255, 216>>, <<255, 217>>, <<170>>, <<255>>}
RECURSIVE Flatten(_)
Flatten(chunks) ==
    IF chunks = <<>> THEN <<>> ELSE Head(chunks) \o Flatten(Tail(chunks))

JPEGLosslessDatasets ==
    {Dataset(Header \o Flatten(cs) \o tail, JPEGLossless, TRUE,
             Len(Flatten(cs)) + Len(tail), 1, 1, Absent, Absent) :
        cs \in Seqs(Chunks, MaxChunks), tail \in Tails}

\* datasets with an unrecognised or absent transfer syntax UID, whose pixel
\* data is raw bytes or a well-formed JPEG 2000 style item pair
UnknownSyntaxValues ==
    {<<1, 2>>,
     ItemTag \o <<0, 0, 0, 0>> \o ItemTag \o <<1, 0, 0, 0>> \o <<170>>
         \o SequenceDelimitationItem}

UnknownSyntaxDatasets ==
    {Dataset(Header \o v, uid, TRUE, Len(v), 1, 1, Absent, Absent) :
        v \in UnknownSyntaxValues, uid \in UnknownSyntaxes}

\* datasets without a pixel-data element (structured reports and the like)
NoPixelDataDatasets ==
    {Dataset(Header \o tr, uid, FALSE, 0, rows, 1, Absent, Absent) :
        tr \in Trailers, uid \in RecognisedSyntaxes \cup UnknownSyntaxes,
        rows \in 0..MaxRows}

Datasets ==
    UncompressedDatasets \cup JPEG2000Datasets \cup JPEGLosslessDatasets
        \cup UnknownSyntaxDatasets \cup NoPixelDataDatasets

\* ------------------------------------------------------------------ state
VARIABLES
    dicomData,           \* the parsed dataset; its byteArray is the live buffer
    parsedByteArray,     \* byteArray as parseDicomData returned it
    lastTransferSyntax,  \* DICOMService.lastTransferSyntax
    pc,                  \* "idle", or "extracted": a payload waits to be converted
    calls,               \* extractions started on this dataset
    extraction,          \* what the last extractPixelData returned or threw
    decoder,             \* the last external decoder run
    images,              \* the images produced, in order
    result,              \* how the last conversion ended
    targetPath,          \* the targetPath argument of convertToImage
    vault,               \* what convertToImage has created in the vault
    chunk,               \* the last createPNGChunk call: type, data, bytes returned
    tasks,               \* the convertToImage calls in flight, step by step
    tempDir,             \* the files in os.tmpdir()
    batch,               \* a convertFolder / processBatch run
    modal                \* the import modal

\* what lies outside a single conversion
outside == <<tasks, tempDir, batch, modal>>

vars == <<dicomData, parsedByteArray, lastTransferSyntax, pc, calls,
          extraction, decoder, images, result, targetPath, vault, chunk,
          tasks, tempDir, batch, modal>>

\* a decoder run: the payload handed over, the call that ran it, how the tool
\* ended and what it wrote to stderr
NotInvoked ==
    [invoked |-> FALSE, utility |-> "none", byteOffset |-> 0, length |-> 0,
     call |-> 0, outcome |-> "none", stderr |-> ""]
Invoked(utility, e, call, outcome, stderr) ==
    [invoked |-> TRUE, utility |-> utility, byteOffset |-> e.byteOffset,
     length |-> e.length, call |-> call, outcome |-> outcome,
     stderr |-> stderr]

\* how convertToImage ended: the error thrown is its fixed message text and
\* the tool output the message goes on with (detail)
NoResult == [status |-> "none", error |-> NoError, detail |-> ""]
Failed(e) == [status |-> "error", error |-> e, detail |-> ""]
FailedWith(e, detail) == [status |-> "error", error |-> e, detail |-> detail]
Succeeded == [status |-> "ok", error |-> NoError, detail |-> ""]

\* settings.opjPath / settings.magickPath as read when the step runs
ToolPaths == {"", "tool"}
\* how the spawned tool ends: exec error, no output file, empty file, output
ToolOutcomes == {"failed", "missing", "empty", "ok"}
\* what the tool wrote to stderr: nothing, or a diagnostic
ToolStderr == {"", "diagnostic"}
\* contents of the decoded file opj_decompress leaves
DecodedOutputs == {<<1>>, <<1, 2, 2, 1>>}
\* contents of the PNG ImageMagick leaves
MagickOutputs == {<<137, 80>>}

OpenJPEGNotConfiguredError == "OpenJPEG path is not configured"
ImageMagickNotConfiguredError == "ImageMagick path is not configured"
ToolError(utility, outcome) ==
    IF outcome = "failed"
        THEN (IF utility = "magick" THEN "ImageMagick conversion failed"
                                    ELSE "OpenJPEG conversion failed")
    ELSE IF outcome = "missing" THEN "Output file not created"
    ELSE "Output file was created but is empty"

\* the error runConverter / runImageMagickCommand rejects with: only the
\* message of an exec error goes on with `${error.message}\n${stderr}`
ToolFailure(utility, outcome, stderr) ==
    FailedWith(ToolError(utility, outcome),
               IF outcome = "failed" THEN stderr ELSE "")

Image(source, converted) == [source |-> source, png |-> converted]
\* the PNG ImageMagick wrote, returned as it is
MagickImage(bytes) ==
    [status |-> "ok", error |-> NoError, pixels |-> <<>>, ihdr |-> <<>>,
     imageData |-> bytes]

\* targetPath: absent (a preview) or a path in the vault
NoTargetPath == ""
TargetPaths == {NoTargetPath, "target.png"}
\* the vault: whether the target directory was made, and the files created
EmptyVault == [targetDir |-> FALSE, files |-> <<>>]
CreateBinaryError == "createBinary failed"
NoChunk == [type |-> "none", data |-> <<>>, bytes |-> <<>>]
\* no call in flight, an empty temporary directory, no batch, no modal
NoTasks == <<>>
EmptyTempDir == {}
NoBatch == [phase |-> "none"]
NoModal ==
    [open |-> FALSE, isCancelled |-> FALSE, currentOperation |-> "null",
     startButton |-> "none", cancelButton |-> "none", progressBar |-> 0,
     progressText |-> "", updates |-> 0, imports |-> <<>>]
OutsideIdle ==
    /\ tasks = NoTasks
    /\ tempDir = EmptyTempDir
    /\ batch = NoBatch
    /\ modal = NoModal

Init ==
    /\ dicomData \in Datasets
    /\ parsedByteArray = dicomData.byteArray
    /\ lastTransferSyntax = UndefinedUID
    /\ pc = "idle"
    /\ calls = 0
    /\ extraction = NotCalled
    /\ decoder = NotInvoked
    /\ images = <<>>
    /\ result = NoResult
    /\ targetPath = NoTargetPath
    /\ vault = EmptyVault
    /\ chunk = NoChunk
    /\ OutsideIdle

\* convertToImage up to the end of extractPixelData: the transfer syntax is
\* stored, the payload located, and a big-endian payload swapped in place
ExtractPixelData ==
    /\ pc = "idle"
    /\ calls < MaxCalls
    /\ calls' = calls + 1
    /\ lastTransferSyntax' =
           IF dicomData.transferSyntax = UndefinedUID
               THEN "default" ELSE dicomData.transferSyntax
    /\ extraction' = extractPixelData(dicomData)
    /\ dicomData' = [dicomData EXCEPT !.byteArray = ByteArrayAfterExtract(dicomData)]
    /\ pc' = IF extraction'.status = "ok" THEN "extracted" ELSE "idle"
    /\ result' = IF extraction'.status = "ok" THEN NoResult
                                              ELSE Failed(extraction'.error)
    /\ UNCHANGED <<parsedByteArray, decoder, images, targetPath, vault, chunk>>
    /\ UNCHANGED outside

\* the end of convertToImage once the image is there (lines 208-231): without
\* a target path the image is returned; with one, the target directory is
\* made and vault.createBinary either creates the file, and the image is
\* returned, or throws (the path is taken, the write fails), and it is not
Deliver(image) ==
    IF targetPath = NoTargetPath
        THEN /\ images' = Append(images, image)
             /\ result' = Succeeded
             /\ UNCHANGED vault
        ELSE \E created \in BOOLEAN :
                IF created
                    THEN /\ vault' = [targetDir |-> TRUE,
                                      files |-> Append(vault.files,
                                          [path |-> targetPath,
                                           binaryData |-> image.png])]
                         /\ images' = Append(images, image)
                         /\ result' = Succeeded
                    ELSE /\ vault' = [vault EXCEPT !.targetDir = TRUE]
                         /\ result' = Failed(CreateBinaryError)
                         /\ UNCHANGED images

\* the uncompressed branch: convertRawToImage(data, dicomData)
ConvertRawToImage ==
    /\ pc = "extracted"
    /\ lastTransferSyntax # JPEGLossless
    /\ ~extraction.needsDecompression
    /\ LET data == ViewBytes(dicomData.byteArray, extraction.byteOffset,
                             extraction.length)
           converted == convertRawToImage(data, dicomData)
       IN  IF converted.status = "ok"
               THEN Deliver(Image("raw", converted))
               ELSE /\ result' = Failed(converted.error)
                    /\ UNCHANGED <<images, vault>>
    /\ pc' = "idle"
    /\ UNCHANGED <<dicomData, parsedByteArray, lastTransferSyntax, calls,
                   extraction, decoder, targetPath, chunk>>
    /\ UNCHANGED outside

\* the JPEG 2000 branch: the payload goes through runConverter and the
\* decoded file through convertRawToImage
RunConverter ==
    /\ pc = "extracted"
    /\ lastTransferSyntax # JPEGLossless
    /\ extraction.needsDecompression
    /\ \E opjPath \in ToolPaths, outcome \in ToolOutcomes,
          stderr \in ToolStderr, decompressedData \in DecodedOutputs :
          LET converter == getDicomConverter(lastTransferSyntax)
              converted == convertRawToImage(decompressedData, dicomData)
          IN  IF opjPath = ""
                  THEN /\ result' = Failed(OpenJPEGNotConfiguredError)
                       /\ UNCHANGED <<decoder, images, vault>>
              ELSE /\ decoder' = Invoked(converter.utility, extraction, calls,
                                         outcome, stderr)
                   /\ IF outcome # "ok"
                          THEN /\ result' = ToolFailure(converter.utility,
                                                        outcome, stderr)
                               /\ UNCHANGED <<images, vault>>
                      ELSE IF converted.status = "ok"
                          THEN Deliver(Image("decoded", converted))
                      ELSE /\ result' = Failed(converted.error)
                           /\ UNCHANGED <<images, vault>>
    /\ pc' = "idle"
    /\ UNCHANGED <<dicomData, parsedByteArray, lastTransferSyntax, calls,
                   extraction, targetPath, chunk>>
    /\ UNCHANGED outside

\* the JPEG Lossless branch: the frame goes through runImageMagickCommand and
\* the PNG it leaves is the result
RunImageMagickCommand ==
    /\ pc = "extracted"
    /\ lastTransferSyntax = JPEGLossless
    /\ \E magickPath \in ToolPaths, outcome \in ToolOutcomes,
          stderr \in ToolStderr, pngData \in MagickOutputs :
          IF magickPath = ""
              THEN /\ result' = Failed(ImageMagickNotConfiguredError)
                   /\ UNCHANGED <<decoder, images, vault>>
          ELSE /\ decoder' = Invoked("magick", extraction, calls, outcome,
                                     stderr)
               /\ IF outcome # "ok"
                      THEN /\ result' = ToolFailure("magick", outcome, stderr)
                           /\ UNCHANGED <<images, vault>>
                      ELSE Deliver(Image("magick", MagickImage(pngData)))
    /\ pc' = "idle"
    /\ UNCHANGED <<dicomData, parsedByteArray, lastTransferSyntax, calls,
                   extraction, targetPath, chunk>>
    /\ UNCHANGED outside

Next ==
    \/ ExtractPixelData
    \/ ConvertRawToImage
    \/ RunConverter
    \/ RunImageMagickCommand

Spec == Init /\ [][Next]_vars

\* ----------------------------------------- conversions through a decoder
\* convertToImage with or without a target path, on the compressed datasets
\* whose payload reaches a decoder and on the shortest uncompressed ones
DecodeDatasets ==
    {d \in JPEG2000Datasets \cup JPEGLosslessDatasets :
        extractPixelData(d).status = "ok"}
        \cup {d \in UncompressedDatasets : d.length <= 1}

DecodeInit ==
    /\ dicomData \in DecodeDatasets
    /\ parsedByteArray = dicomData.byteArray
    /\ lastTransferSyntax = UndefinedUID
    /\ pc = "idle"
    /\ calls = 0
    /\ extraction = NotCalled
    /\ decoder = NotInvoked
    /\ images = <<>>
    /\ result = NoResult
    /\ targetPath \in TargetPaths
    /\ vault = EmptyVault
    /\ chunk = NoChunk
    /\ OutsideIdle

SpecDecode == DecodeInit /\ [][Next]_vars

\* -------------------------------------------- convertRawToImage on its own
\* The sample buffer is whatever reaches convertRawToImage (the extracted
\* payload, or the file the decoder left), the dataset any combination of the
\* values the method reads.
RasterByteValues == {0, 1, 255}
\* BitsAllocated: 0 stands for an absent tag
BitsAllocatedValues == {0, 8, 16}
\* WindowCenter / WindowWidth as floatString returns them
RasterWindows ==
    {<<Absent, Absent>>, <<Present(256), Present(256)>>,
     <<Present(0), Present(256)>>, <<Present(256), Present(0)>>}
\* RescaleSlope / RescaleIntercept as the dataset carries them
RescaleValues == {<<Absent, Absent>>, <<Present(2), Present(1)>>}

RasterDataset(px, uid, rows, columns, bits, w, rs) ==
    [byteArray |-> px, transferSyntax |-> uid, hasPixelData |-> TRUE,
     dataOffset |-> 0, length |-> Len(px),
     rows |-> rows, columns |-> columns, bitsAllocated |-> bits,
     windowCenter |-> w[1], windowWidth |-> w[2],
     rescaleSlope |-> rs[1], rescaleIntercept |-> rs[2]]

RasterDatasets ==
    {RasterDataset(px, uid, rows, columns, bits, w, rs) :
        px \in Seqs(RasterByteValues, MaxPixelBytes),
        uid \in {ImplicitVRLittleEndian, ExplicitVRBigEndian},
        rows \in 0..MaxRows, columns \in 1..MaxColumns,
        bits \in BitsAllocatedValues, w \in RasterWindows,
        rs \in RescaleValues}

\* convertToImage at the call of convertRawToImage(data, dicomData), for a
\* dataset and sample buffer out of the given ones
ConvertCall(datasets) ==
    /\ dicomData \in datasets
    /\ parsedByteArray = dicomData.byteArray
    /\ lastTransferSyntax = dicomData.transferSyntax
    /\ pc = "extracted"
    /\ calls = 1
    /\ extraction = Returned(0, Len(dicomData.byteArray), FALSE)
    /\ decoder = NotInvoked
    /\ images = <<>>
    /\ result = NoResult
    /\ targetPath = NoTargetPath
    /\ vault = EmptyVault
    /\ chunk = NoChunk
    /\ OutsideIdle

RasterInit == ConvertCall(RasterDatasets)

SpecRaster == RasterInit /\ [][ConvertRawToImage]_vars

\* 16-bit images whose PNG file is assembled: the widths include one that
\* needs two bytes, which only an image without rows can have here
WideColumns == 256 + 2
PNGDatasets ==
    {RasterDataset(px, ImplicitVRLittleEndian, rows, columns, 16,
                   <<Absent, Absent>>, <<Absent, Absent>>) :
        px \in Seqs({1, 255}, MaxPixelBytes), rows \in 0..MaxRows,
        columns \in (1..MaxColumns) \cup {WideColumns}}

PNGInit == ConvertCall(PNGDatasets)

SpecPNG == PNGInit /\ [][ConvertRawToImage]_vars

\* ------------------------------------------------ createPNGChunk on its own
\* one call of createPNGChunk for each chunk type and each short data array
ChunkInputs ==
    {[type |-> type, data |-> data, bytes |-> <<>>] :
        type \in DOMAIN TypeBytes, data \in Seqs(RasterByteValues, MaxChunkData)}

ChunkInit ==
    /\ dicomData = RasterDataset(<<>>, ImplicitVRLittleEndian, 0, 1, 16,
                                 <<Absent, Absent>>, <<Absent, Absent>>)
    /\ parsedByteArray = dicomData.byteArray
    /\ lastTransferSyntax = UndefinedUID
    /\ pc = "idle"
    /\ calls = 0
    /\ extraction = NotCalled
    /\ decoder = NotInvoked
    /\ images = <<>>
    /\ result = NoResult
    /\ targetPath = NoTargetPath
    /\ vault = EmptyVault
    /\ chunk \in ChunkInputs
    /\ OutsideIdle

\* createPNGChunk(type, data): the chunk's bytes are returned
CreatePNGChunk ==
    /\ chunk.type \in DOMAIN TypeBytes
    /\ chunk.bytes = <<>>
    /\ chunk' = [chunk EXCEPT !.bytes = createPNGChunk(chunk.type, chunk.data)]
    /\ UNCHANGED <<dicomData, parsedByteArray, lastTransferSyntax, pc, calls,
                   extraction, decoder, images, result, targetPath, vault>>
    /\ UNCHANGED outside

SpecChunk == ChunkInit /\ [][CreatePNGChunk]_vars

\* ------------------------------------------- convertToImage, await by await
\* The calls of convertToImage in flight on one DICOMService.  A call advances
\* from one await to the next in one step; the steps of different calls
\* interleave.  All calls share lastTransferSyntax, the temporary directory
\* and the vault.

\* the values the other variables keep while calls, batches or the modal run
NoConversion ==
    /\ dicomData = RasterDataset(<<>>, ImplicitVRLittleEndian, 0, 1, 16,
                                 <<Absent, Absent>>, <<Absent, Absent>>)
    /\ parsedByteArray = dicomData.byteArray
    /\ pc = "idle"
    /\ calls = 0
    /\ extraction = NotCalled
    /\ decoder = NotInvoked
    /\ images = <<>>
    /\ result = NoResult
    /\ targetPath = NoTargetPath
    /\ chunk = NoChunk

conversion == <<dicomData, parsedByteArray, pc, calls, extraction, decoder,
                images, result, targetPath, chunk>>

\* the TFile handed to convertToImage and the dataset parsed from it
NoFile == [folder |-> 0, basename |-> ""]
TaskFile(folder, basename, d) ==
    [folder |-> folder, basename |-> basename, dicomData |-> d]
FileOf(call) ==
    [folder |-> call.file.folder, basename |-> call.file.basename]

\* crypto.createHash('md5').update(file.basename).digest('hex').substring(0, 8):
\* a function of the basename alone, taken to be free of collisions
Hash(basename) == <<"md5", basename>>
\* path.join(os.tmpdir(), `dicom_tmp_${hash}.${ext}`)
TempPath(basename, ext) == [hash |-> Hash(basename), ext |-> ext]

\* tempFiles.push(input, output) of the two decoding branches
TempFiles(route, basename) ==
    IF route = "magick"
        THEN <<TempPath(basename, "jpg"), TempPath(basename, "png")>>
        ELSE <<TempPath(basename, "j2k"), TempPath(basename, "pgm")>>

\* what a file holds: the tool that wrote it and the payload bytes it was
\* made from.  The external tools are functions of their input file.
NoContent == [tool |-> "absent", bytes |-> <<>>]
Written(bytes) == [tool |-> "none", bytes |-> bytes]
ToolOutput(utility, input) == [tool |-> utility, bytes |-> input.bytes]

\* fs.access, fs.readFile, fs.writeFile and fs.unlink on the temporary directory
Exists(dir, path) == \E f \in dir : f.path = path
ContentAt(dir, path) == (CHOOSE f \in dir : f.path = path).content
WriteFile(dir, path, content) ==
    {f \in dir : f.path # path} \cup {[path |-> path, content |-> content]}
Unlink(dir, path) == {f \in dir : f.path # path}

\* the finally block with the unlink left out
RemoveTempFileSkipped(dir, path, unlinkFails) == dir

\* one round of the finally block: fs.access(tempPath).then(unlink, ignore),
\* an error of unlink caught and logged
RemoveTempFile(dir, path, unlinkFails) ==
    IF Exists(dir, path) /\ ~unlinkFails THEN Unlink(dir, path) ELSE dir

\* the image convertToImage returns.  convertRawToImage is a function of the
\* pixel data and the dataset it is given, so a reconstructed image is kept as
\* that pair; ImageMagick's PNG is returned as read.
NoImage == [source |-> "none", pixelData |-> NoContent, tags |-> NoFile]
Reconstructed(source, pixelData, file) ==
    [source |-> source, pixelData |-> pixelData, tags |-> file]
MagickPNG(pngData) ==
    [source |-> "magick", pixelData |-> pngData, tags |-> NoFile]

\* how a call ends
NoOutcome == [status |-> "none", error |-> NoError, image |-> NoImage]
Threw(e) == [status |-> "error", error |-> e, image |-> NoImage]
ReturnedImage(image) == [status |-> "ok", error |-> NoError, image |-> image]

WriteFileError == "writeFile failed"
ReadFileError == "ENOENT: no such file or directory"

\* what can go wrong in a call by itself
Faults == {"none", "noToolPath", "writeFails", "toolFails",
           "createBinaryFails", "unlinkFails"}

\* the branch of convertToImage with the needsDecompression test left out
RouteAlwaysRaw(transferSyntax, needsDecompression) ==
    IF transferSyntax = JPEGLossless THEN "magick" ELSE "raw"

\* the branch convertToImage takes after extractPixelData
Route(transferSyntax, needsDecompression) ==
    IF transferSyntax = JPEGLossless THEN "magick"
    ELSE IF needsDecompression THEN "opj_decompress"
    ELSE "raw"

NewCall(file, target, fault) ==
    [file |-> file, targetPath |-> target, fault |-> fault, pc |-> "start",
     route |-> "none", payload |-> NoContent, tempFiles |-> <<>>,
     syntaxRead |-> "none", utility |-> "none", reconstructed |-> NoContent,
     pending |-> NoOutcome, cleaned |-> 0, result |-> NoOutcome]

\* throw: the catch block rethrows and the finally block starts
Throw(call, e) == [call EXCEPT !.pending = Threw(e), !.pc = "cleanup"]

\* await this.loadDICOMFile(file)
LoadDICOMFile(t) ==
    /\ tasks[t].pc = "start"
    /\ tasks' = [tasks EXCEPT ![t].pc = "loaded"]
    /\ UNCHANGED <<conversion, lastTransferSyntax, vault, tempDir, batch, modal>>

\* from parseDicomData to the first await: the transfer syntax is stored, the
\* payload extracted and the branch chosen; an uncompressed payload goes
\* straight to convertRawToImage
BeginConversion(t) ==
    /\ tasks[t].pc = "loaded"
    /\ LET call == tasks[t]
           d == call.file.dicomData
           syntax == IF d.transferSyntax = UndefinedUID
                         THEN "default" ELSE d.transferSyntax
           e == extractPixelData(d)
           payload == Written(ViewBytes(ByteArrayAfterExtract(d),
                                        e.byteOffset, e.length))
           route == Route(syntax, e.needsDecompression)
           routed == [call EXCEPT !.route = route, !.payload = payload]
       IN  /\ lastTransferSyntax' = syntax
           /\ tasks' = [tasks EXCEPT ![t] =
                  IF e.status # "ok" THEN Throw(call, e.error)
                  ELSE IF route = "magick" /\ call.fault = "noToolPath"
                      THEN Throw(routed, ImageMagickNotConfiguredError)
                  ELSE IF route = "raw"
                      THEN [routed EXCEPT
                               !.reconstructed = payload,
                               !.pending = ReturnedImage(
                                   Reconstructed("raw", payload, FileOf(call))),
                               !.pc = "converted"]
                  ELSE [routed EXCEPT
                           !.tempFiles = TempFiles(route, call.file.basename),
                           !.pc = "writing"]]
    /\ UNCHANGED <<conversion, vault, tempDir, batch, modal>>

\* await fs.writeFile(input, data), then the start of runConverter or
\* runImageMagickCommand: runConverter reads this.lastTransferSyntax to pick
\* the utility, and the tool is spawned
WriteInput(t) ==
    /\ tasks[t].pc = "writing"
    /\ LET call == tasks[t]
       IN  IF call.fault = "writeFails"
               THEN /\ tasks' = [tasks EXCEPT ![t] = Throw(call, WriteFileError)]
                    /\ UNCHANGED tempDir
           ELSE /\ tempDir' = WriteFile(tempDir, call.tempFiles[1], call.payload)
                /\ tasks' = [tasks EXCEPT ![t] =
                       IF call.route = "magick"
                           THEN [call EXCEPT !.utility = "magick",
                                             !.pc = "running"]
                       ELSE IF call.fault = "noToolPath"
                           THEN Throw(call, OpenJPEGNotConfiguredError)
                       ELSE [call EXCEPT
                                !.syntaxRead = lastTransferSyntax,
                                !.utility =
                                    getDicomConverter(lastTransferSyntax).utility,
                                !.pc = "running"]]
    /\ UNCHANGED <<conversion, lastTransferSyntax, vault, batch, modal>>

\* the spawned tool: it reads the input file as it is now and leaves the
\* output file, or exits with an error
ToolRuns(t) ==
    /\ tasks[t].pc = "running"
    /\ LET call == tasks[t]
       IN  IF call.fault = "toolFails" \/ ~Exists(tempDir, call.tempFiles[1])
               THEN /\ tasks' = [tasks EXCEPT ![t] =
                           Throw(call, ToolError(call.utility, "failed"))]
                    /\ UNCHANGED tempDir
           ELSE /\ tempDir' =
                       WriteFile(tempDir, call.tempFiles[2],
                                 ToolOutput(call.utility,
                                            ContentAt(tempDir, call.tempFiles[1])))
                /\ tasks' = [tasks EXCEPT ![t].pc = "ran"]
    /\ UNCHANGED <<conversion, lastTransferSyntax, vault, batch, modal>>

\* the exec callback: fs.access and fs.stat on the output file
VerifyOutput(t) ==
    /\ tasks[t].pc = "ran"
    /\ LET call == tasks[t]
       IN  tasks' = [tasks EXCEPT ![t] =
               IF Exists(tempDir, call.tempFiles[2])
                   THEN [call EXCEPT !.pc = "verified"]
                   ELSE Throw(call, ToolError(call.utility, "missing"))]
    /\ UNCHANGED <<conversion, lastTransferSyntax, vault, tempDir, batch, modal>>

\* await fs.readFile(output): ImageMagick's PNG is the result, OpenJPEG's
\* output goes through convertRawToImage
ReadOutput(t) ==
    /\ tasks[t].pc = "verified"
    /\ LET call == tasks[t]
           output == ContentAt(tempDir, call.tempFiles[2])
       IN  tasks' = [tasks EXCEPT ![t] =
               IF ~Exists(tempDir, call.tempFiles[2])
                   THEN Throw(call, ReadFileError)
               ELSE IF call.route = "magick"
                   THEN [call EXCEPT !.pending = ReturnedImage(MagickPNG(output)),
                                     !.pc = "converted"]
               ELSE [call EXCEPT
                        !.reconstructed = output,
                        !.pending = ReturnedImage(
                            Reconstructed("decoded", output, FileOf(call))),
                        !.pc = "converted"]]
    /\ UNCHANGED <<conversion, lastTransferSyntax, vault, tempDir, batch, modal>>

\* if (targetPath): fs.mkdir and vault.createBinary
SaveToTarget(t) ==
    /\ tasks[t].pc = "converted"
    /\ LET call == tasks[t]
       IN  IF call.targetPath = NoTargetPath
               THEN /\ tasks' = [tasks EXCEPT ![t].pc = "cleanup"]
                    /\ UNCHANGED vault
           ELSE IF call.fault = "createBinaryFails"
               THEN /\ tasks' = [tasks EXCEPT ![t] =
                           Throw(call, CreateBinaryError)]
                    /\ vault' = [vault EXCEPT !.targetDir = TRUE]
           ELSE /\ tasks' = [tasks EXCEPT ![t].pc = "cleanup"]
                /\ vault' = [targetDir |-> TRUE,
                             files |-> Append(vault.files,
                                 [path |-> call.targetPath,
                                  binaryData |-> call.pending.image])]
    /\ UNCHANGED <<conversion, lastTransferSyntax, tempDir, batch, modal>>

\* the finally block, one temporary file at a time
CleanUp(t) ==
    /\ tasks[t].pc = "cleanup"
    /\ tasks[t].cleaned < Len(tasks[t].tempFiles)
    /\ tempDir' = RemoveTempFile(tempDir,
                                 tasks[t].tempFiles[tasks[t].cleaned + 1],
                                 tasks[t].fault = "unlinkFails")
    /\ tasks' = [tasks EXCEPT ![t].cleaned = @ + 1]
    /\ UNCHANGED <<conversion, lastTransferSyntax, vault, batch, modal>>

\* the promise settles with what the try block returned or threw
Settle(t) ==
    /\ tasks[t].pc = "cleanup"
    /\ tasks[t].cleaned = Len(tasks[t].tempFiles)
    /\ tasks' = [tasks EXCEPT ![t].result = tasks[t].pending,
                              ![t].pc = "settled"]
    /\ UNCHANGED <<conversion, lastTransferSyntax, vault, tempDir, batch, modal>>

TaskNext ==
    \/ \E t \in DOMAIN tasks : LoadDICOMFile(t)
    \/ \E t \in DOMAIN tasks : BeginConversion(t)
    \/ \E t \in DOMAIN tasks : WriteInput(t)
    \/ \E t \in DOMAIN tasks : ToolRuns(t)
    \/ \E t \in DOMAIN tasks : VerifyOutput(t)
    \/ \E t \in DOMAIN tasks : ReadOutput(t)
    \/ \E t \in DOMAIN tasks : SaveToTarget(t)
    \/ \E t \in DOMAIN tasks : CleanUp(t)
    \/ \E t \in DOMAIN tasks : Settle(t)

\* the files of the calls: a JPEG 2000 payload behind an empty offset table, a
\* JPEG Lossless frame, uncompressed samples, and a dataset without pixel data
EncapsulatedJ2K(uid, codestream) ==
    Dataset(Header \o ItemTag \o <<0, 0, 0, 0>>
                \o ItemTag \o <<Len(codestream), 0, 0, 0>> \o codestream
                \o SequenceDelimitationItem,
            uid, TRUE, 24 + Len(codestream), 1, 1, Absent, Absent)
TaskDatasets ==
    {EncapsulatedJ2K(JPEG2000Lossless, <<170>>),
     EncapsulatedJ2K(JPEG2000Lossy, <<170, 170>>),
     Dataset(Header \o <<255, 216, 170, 255, 217>> \o SequenceDelimitationItem,
             JPEGLossless, TRUE, 13, 1, 1, Absent, Absent),
     Dataset(Header \o <<1, 2>>, ExplicitVRLittleEndian, TRUE, 2, 1, 1,
             Absent, Absent),
     Dataset(Header, ExplicitVRLittleEndian, FALSE, 0, 1, 1, Absent, Absent)}
Basenames == {"IM1", "IM2"}

\* one call, with every fault and with or without a target path
CallInit ==
    /\ NoConversion
    /\ lastTransferSyntax = UndefinedUID
    /\ vault = EmptyVault
    /\ tasks \in {<<NewCall(TaskFile(1, "IM1", d), target, fault)>> :
                     d \in TaskDatasets, target \in TargetPaths,
                     fault \in Faults}
    /\ tempDir = EmptyTempDir
    /\ batch = NoBatch
    /\ modal = NoModal

SpecCall == CallInit /\ [][TaskNext]_vars

\* MaxTasks calls on files of different folders, started together: no fault,
\* no target path
ConcurrentInit ==
    /\ NoConversion
    /\ lastTransferSyntax = UndefinedUID
    /\ vault = EmptyVault
    /\ tasks \in {[t \in 1..MaxTasks |->
                      NewCall(TaskFile(t, choice[t][1], choice[t][2]),
                              NoTargetPath, "none")] :
                     choice \in [1..MaxTasks -> Basenames \X TaskDatasets]}
    /\ tempDir = EmptyTempDir
    /\ batch = NoBatch
    /\ modal = NoModal

SpecConcurrent == ConcurrentInit /\ [][TaskNext]_vars

\* ------------------------------------------------ convertFolder, processBatch
\* One import: convertFolder finds the files, reports 20, and hands them to
\* processBatch, which parses and groups them, works through the series one
\* after the other (the conversions of a series run together), writes the
\* study notes and returns; convertFolder then reports 100.  Archiving
\* (settings.archiveDicomFiles) is off.

\* SOP Class UIDs: the three structured-report classes, and MR Image Storage
StructuredReportClasses ==
    {"1.2.840.10008.5.1.4.1.1.88.11", "1.2.840.10008.5.1.4.1.1.88.22",
     "1.2.840.10008.5.1.4.1.1.88.33"}
ImageClass == "1.2.840.10008.5.1.4.1.1.4"
isStructuredReport(dataset) == dataset.sopClassUID \in StructuredReportClasses

\* a file of the batch: whether parseDicom accepts it, and the tags
\* processBatch reads (0: the tag is absent)
AbsentUID == 0
BatchFile(parses, seriesUID, studyUID, sopClassUID) ==
    [parses |-> parses, seriesUID |-> seriesUID, studyUID |-> studyUID,
     sopClassUID |-> sopClassUID]
BatchFiles ==
    {BatchFile(FALSE, AbsentUID, AbsentUID, ImageClass),
     BatchFile(TRUE, AbsentUID, 1, ImageClass),
     BatchFile(TRUE, 1, AbsentUID, ImageClass)}
        \cup {BatchFile(TRUE, series, 1, class) :
                 series \in 1..MaxSeries,
                 class \in {ImageClass, "1.2.840.10008.5.1.4.1.1.88.22"}}

\* seriesGroups after the first n files: a Map in insertion order, each
\* group with its files and the dataset of its first file
RECURSIVE SeriesGroups(_, _)
SeriesGroups(files, n) ==
    IF n = 0 THEN <<>>
    ELSE LET groups == SeriesGroups(files, n - 1)
             file == files[n]
             known == {k \in DOMAIN groups : groups[k].seriesUID = file.seriesUID}
         IN  IF file.seriesUID = AbsentUID \/ file.studyUID = AbsentUID
                 THEN groups
             ELSE IF known = {}
                 THEN Append(groups, [seriesUID |-> file.seriesUID,
                                      files |-> {n}, dicomData |-> file])
             ELSE [k \in DOMAIN groups |->
                      IF k \in known
                          THEN [groups[k] EXCEPT !.files = @ \cup {n}]
                          ELSE groups[k]]

\* studyGroups after the first n files
RECURSIVE StudyGroups(_, _)
StudyGroups(files, n) ==
    IF n = 0 THEN <<>>
    ELSE LET groups == StudyGroups(files, n - 1)
             file == files[n]
         IN  IF file.seriesUID = AbsentUID \/ file.studyUID = AbsentUID
                     \/ \E k \in DOMAIN groups : groups[k] = file.studyUID
                 THEN groups
                 ELSE Append(groups, file.studyUID)

RoundHalfUp(a, b) == ((2 * a) + b) \div (2 * b)

\* the percentage without the 20 the analysis accounts for
SeriesPercentageUnscaled(processedSeries, size) ==
    RoundHalfUp(100 * processedSeries, size)

\* Math.min(90, 20 + Math.round((processedSeries / size) * 70))
SeriesPercentage(processedSeries, size) ==
    LET percentage == 20 + RoundHalfUp(70 * processedSeries, size)
    IN  IF percentage < 90 THEN percentage ELSE 90

NewBatch(files, createAnimatedGif) ==
    [phase |-> "idle", files |-> files, createAnimatedGif |-> createAnimatedGif,
     seriesGroups |-> <<>>, studyGroups |-> <<>>, processedSeries |-> 0,
     step |-> "none", status |-> [f \in DOMAIN files |-> "none"],
     called |-> {}, gif |-> "not attempted", notes |-> <<>>, studyNotes |-> 0,
     reports |-> <<>>, error |-> NoError]

\* the series the loop is at, and its files
Current(b) == b.seriesGroups[b.processedSeries + 1]

\* the note step not waiting for the conversions
ConversionsSettledUnawaited(b) == TRUE

\* await Promise.all(...): every conversion of the series has settled
ConversionsSettled(b) == \A f \in Current(b).files : b.status[f] # "waiting"

Reject(b, e) == [b EXCEPT !.phase = "failed", !.error = e]

\* convertFolder up to the first report: validateSettings, findDicomFiles
StartConvertFolder ==
    /\ batch.phase = "idle"
    /\ \E valid \in BOOLEAN :
          batch' = IF ~valid THEN Reject(batch, "OpenJPEG path")
                   ELSE IF Len(batch.files) = 0
                       THEN Reject(batch, "No DICOM files found")
                   ELSE [batch EXCEPT !.phase = "reading", !.reports = <<20>>]
    /\ UNCHANGED <<conversion, lastTransferSyntax, vault, tasks, tempDir, modal>>

\* the files are read, and processBatch parses and groups them
AnalyseBatch ==
    /\ batch.phase = "reading"
    /\ LET files == batch.files
           seriesGroups == SeriesGroups(files, Len(files))
       IN  batch' =
               IF \E f \in DOMAIN files : ~files[f].parses
                   THEN Reject(batch, "parseDicom failed")
               ELSE [batch EXCEPT
                        !.phase = IF seriesGroups = <<>> THEN "studies"
                                                         ELSE "series",
                        !.step = "start",
                        !.seriesGroups = seriesGroups,
                        !.studyGroups = StudyGroups(files, Len(files)),
                        !.notes = [k \in DOMAIN seriesGroups |-> 0]]
    /\ UNCHANGED <<conversion, lastTransferSyntax, vault, tasks, tempDir, modal>>

\* the head of the series loop: the folders are made, and unless the series is
\* a report (by the dataset of its first file) its conversions are started
StartSeries ==
    /\ batch.phase = "series"
    /\ batch.step = "start"
    /\ batch' =
           IF isStructuredReport(Current(batch).dicomData)
               THEN [batch EXCEPT !.step = "noted"]
               ELSE [batch EXCEPT
                        !.step = "converting",
                        !.gif = "not attempted",
                        !.status = [f \in DOMAIN batch.files |->
                                       IF f \in Current(batch).files
                                           THEN "waiting" ELSE @[f]]]
    /\ UNCHANGED <<conversion, lastTransferSyntax, vault, tasks, tempDir, modal>>

\* one callback of group.files.map: the target exists, or convertToImage is
\* called and returns or throws; every error is caught
ConvertFile ==
    /\ batch.phase = "series"
    /\ batch.step = "converting"
    /\ \E f \in Current(batch).files,
          outcome \in {"exists", "returned", "already exists", "threw"} :
          /\ batch.status[f] = "waiting"
          /\ batch' = [batch EXCEPT
                 !.called = IF outcome = "exists" THEN @ ELSE @ \cup {f},
                 !.status[f] =
                     IF outcome = "returned" THEN "converted"
                     ELSE IF outcome = "threw" THEN "failed"
                     ELSE "skipped"]
    /\ UNCHANGED <<conversion, lastTransferSyntax, vault, tasks, tempDir, modal>>

\* createAnimatedGif, when enabled, after Promise.all
CreateAnimatedGif ==
    /\ batch.phase = "series"
    /\ batch.step = "converting"
    /\ ConversionsSettled(batch)
    /\ batch.createAnimatedGif
    /\ \E made \in BOOLEAN :
          batch' = [batch EXCEPT
                       !.gif = IF made THEN "made" ELSE "failed",
                       !.step = IF made THEN "try" ELSE "catch"]
    /\ UNCHANGED <<conversion, lastTransferSyntax, vault, tasks, tempDir, modal>>

\* createMetadataNote: in the try block after the GIF, in the catch block
\* after a failure in the try block, or at once when GIFs are off; an error
\* outside the try block rejects processBatch
CreateMetadataNote ==
    /\ batch.phase = "series"
    /\ \/ batch.step \in {"try", "catch"}
       \/ /\ batch.step = "converting"
          /\ ConversionsSettled(batch)
          /\ ~batch.createAnimatedGif
    /\ \E created \in BOOLEAN :
          batch' =
              IF created
                  THEN [batch EXCEPT !.notes[batch.processedSeries + 1] = @ + 1,
                                     !.step = "noted"]
              ELSE IF batch.step = "try"
                  THEN [batch EXCEPT !.step = "catch"]
              ELSE Reject(batch, "createMetadataNote failed")
    /\ UNCHANGED <<conversion, lastTransferSyntax, vault, tasks, tempDir, modal>>

\* the foot of the series loop: processedSeries++ and the progress report
EndSeries ==
    /\ batch.phase = "series"
    /\ batch.step = "noted"
    /\ LET processedSeries == batch.processedSeries + 1
           size == Len(batch.seriesGroups)
       IN  batch' = [batch EXCEPT
               !.processedSeries = processedSeries,
               !.reports = Append(@, SeriesPercentage(processedSeries, size)),
               !.step = "start",
               !.phase = IF processedSeries = size THEN "studies" ELSE "series"]
    /\ UNCHANGED <<conversion, lastTransferSyntax, vault, tasks, tempDir, modal>>

\* createStudyMetadataNote for the next study, its errors caught
CreateStudyMetadataNote ==
    /\ batch.phase = "studies"
    /\ batch.studyNotes < Len(batch.studyGroups)
    /\ batch' = [batch EXCEPT !.studyNotes = @ + 1]
    /\ UNCHANGED <<conversion, lastTransferSyntax, vault, tasks, tempDir, modal>>

\* processBatch has returned: convertFolder reports 100
FinishConvertFolder ==
    /\ batch.phase = "studies"
    /\ batch.studyNotes = Len(batch.studyGroups)
    /\ batch' = [batch EXCEPT !.phase = "done", !.reports = Append(@, 100)]
    /\ UNCHANGED <<conversion, lastTransferSyntax, vault, tasks, tempDir, modal>>

BatchNext ==
    \/ StartConvertFolder
    \/ AnalyseBatch
    \/ StartSeries
    \/ ConvertFile
    \/ CreateAnimatedGif
    \/ CreateMetadataNote
    \/ EndSeries
    \/ CreateStudyMetadataNote
    \/ FinishConvertFolder

BatchInit ==
    /\ NoConversion
    /\ lastTransferSyntax = UndefinedUID
    /\ vault = EmptyVault
    /\ tasks = NoTasks
    /\ tempDir = EmptyTempDir
    /\ batch \in {NewBatch(files, gif) :
                     files \in Seqs(BatchFiles, MaxFiles), gif \in BOOLEAN}
    /\ modal = NoModal

SpecBatch == BatchInit /\ [][BatchNext]_vars

\* ------------------------------------------------------------ ImportModal
\* The import dialog: its fields, the display of its two buttons, the
\* progress bar and text, and the convertFolder calls it has started.  A call
\* reports the percentages of an import of two series one after the other and
\* then resolves, or rejects before its last report.  updates counts the
\* writes of updateProgress to the bar.
Percentages ==
    <<20, SeriesPercentage(1, 2), SeriesPercentage(2, 2), 100>>
Running(m) == {i \in DOMAIN m.imports : m.imports[i].state = "running"}

\* onOpen: the bar at 0, the start button shown, the cancel button hidden
OnOpen ==
    /\ ~modal.open
    /\ modal.imports = <<>>
    /\ modal' = [modal EXCEPT !.open = TRUE, !.startButton = "block",
                              !.cancelButton = "none", !.progressBar = 0,
                              !.progressText = "Ready to import"]
    /\ UNCHANGED <<conversion, lastTransferSyntax, vault, tasks, tempDir, batch>>

\* startImport up to the await of convertFolder: a click on the start button
StartImport ==
    /\ modal.open
    /\ modal.startButton = "block"
    /\ Len(modal.imports) < MaxImports
    /\ \E configured \in BOOLEAN :
          modal' =
              IF ~configured
                  THEN [modal EXCEPT !.progressText = "Please configure"]
                  ELSE [modal EXCEPT
                           !.isCancelled = FALSE,
                           !.currentOperation = "controller",
                           !.cancelButton = "block",
                           !.startButton = "none",
                           !.imports = Append(@, [state |-> "running",
                                                  reported |-> 0,
                                                  cancelled |-> FALSE])]
    /\ UNCHANGED <<conversion, lastTransferSyntax, vault, tasks, tempDir, batch>>

\* cancelImport; the calls running at that moment are marked cancelled
cancelImport(m) ==
    IF m.isCancelled THEN m
    ELSE [m EXCEPT
             !.isCancelled = TRUE,
             !.progressText = "Cancelling...",
             !.currentOperation = IF @ = "null" THEN @ ELSE "aborted",
             !.startButton = "block",
             !.imports = [i \in DOMAIN @ |->
                             IF @[i].state = "running"
                                 THEN [@[i] EXCEPT !.cancelled = TRUE]
                                 ELSE @[i]]]

\* a click on the cancel button
CancelImport ==
    /\ modal.open
    /\ modal.cancelButton = "block"
    /\ modal' = cancelImport(modal)
    /\ UNCHANGED <<conversion, lastTransferSyntax, vault, tasks, tempDir, batch>>

\* the progress callback of a running call, and updateProgress
OnProgress ==
    /\ \E i \in Running(modal) :
          /\ modal.imports[i].reported < Len(Percentages)
          /\ LET reported == modal.imports[i].reported + 1
                 m == [modal EXCEPT !.imports[i].reported = reported]
             IN  modal' =
                     IF modal.isCancelled THEN m
                     ELSE [m EXCEPT !.progressBar = Percentages[reported],
                                    !.progressText = "progress",
                                    !.updates = @ + 1]
    /\ UNCHANGED <<conversion, lastTransferSyntax, vault, tasks, tempDir, batch>>

\* the finally block of startImport
Finally(m) == [m EXCEPT !.currentOperation = "null", !.cancelButton = "none"]

\* convertFolder resolves after its last report; the close is left to Close
ImportResolves ==
    /\ \E i \in Running(modal) :
          /\ modal.imports[i].reported = Len(Percentages)
          /\ modal' = Finally([modal EXCEPT !.imports[i].state = "resolved"])
    /\ UNCHANGED <<conversion, lastTransferSyntax, vault, tasks, tempDir, batch>>

\* convertFolder rejects: the catch block of startImport
ImportRejects ==
    /\ \E i \in Running(modal) :
          /\ modal.imports[i].reported < Len(Percentages)
          /\ LET m == [modal EXCEPT !.imports[i].state = "rejected"]
             IN  modal' = Finally(
                     IF modal.isCancelled
                         THEN [m EXCEPT !.progressText = "Import cancelled"]
                         ELSE [m EXCEPT !.progressText = "Error",
                                        !.startButton = "block"])
    /\ UNCHANGED <<conversion, lastTransferSyntax, vault, tasks, tempDir, batch>>

\* onClose, by the user or by a timer of startImport
OnClose ==
    /\ modal.open
    /\ modal' = [(IF modal.currentOperation # "null"
                      THEN cancelImport(modal) ELSE modal)
                    EXCEPT !.open = FALSE]
    /\ UNCHANGED <<conversion, lastTransferSyntax, vault, tasks, tempDir, batch>>

ModalNext ==
    \/ OnOpen
    \/ StartImport
    \/ CancelImport
    \/ OnProgress
    \/ ImportResolves
    \/ ImportRejects
    \/ OnClose

ModalInit ==
    /\ NoConversion
    /\ lastTransferSyntax = UndefinedUID
    /\ vault = EmptyVault
    /\ tasks = NoTasks
    /\ tempDir = EmptyTempDir
    /\ batch = NoBatch
    /\ modal = NoModal

SpecModal == ModalInit /\ [][ModalNext]_vars

\* ================================================================ claims
Called == calls > 0
Raw(k) == images[k].source = "raw"
StoredPixelData == ViewBytes(parsedByteArray, dicomData.dataOffset, dicomData.length)

\* the signed 16-bit value of stored sample i (from 0), first byte high
StoredSampleBigEndian(i) ==
    LET unsigned == 256 * StoredPixelData[2 * i + 1] + StoredPixelData[2 * i + 2]
    IN  IF unsigned >= 32768 THEN unsigned - 65536 ELSE unsigned

\* C1: under Explicit VR Big Endian every 16-bit sample the pipeline
\* (extractPixelData, then convertRawToImage) decodes is the big-endian value
\* of the two bytes stored in the file: 01 02 decodes as 258, not 513.
C1_BigEndianSampleDecoded ==
    dicomData.transferSyntax = ExplicitVRBigEndian =>
        \A k \in 1..Len(images) :
            Raw(k) =>
                \A i \in 1..Len(images[k].png.pixels) :
                    2 * i <= dicomData.length =>
                        images[k].png.pixels[i] = StoredSampleBigEndian(i - 1)

\* C2: extraction on a dataset without a pixel-data element fails with the
\* no-pixel-data error whatever the transfer syntax is; it never returns a
\* payload, and the conversion ends with that error and no image.
C2_NoPixelDataFails ==
    ~dicomData.hasPixelData =>
        /\ extraction.status # "ok"
        /\ pc = "idle"
        /\ images = <<>>
        /\ Called => /\ extraction = Thrown(NoPixelDataError)
                     /\ result = Failed(NoPixelDataError)

C2_Witness ==
    /\ ~dicomData.hasPixelData
    /\ dicomData.transferSyntax = ExplicitVRLittleEndian
    /\ extraction = Thrown(NoPixelDataError)

\* C3 as stated: with an unrecognised (or absent) transfer syntax UID the
\* conversion fails with the unsupported-transfer-syntax error, no decoder is
\* invoked and no image is produced.
C3_UnknownSyntaxUnsupported ==
    dicomData.transferSyntax \notin RecognisedSyntaxes =>
        /\ extraction.status # "ok"
        /\ pc = "idle"
        /\ ~decoder.invoked
        /\ images = <<>>
        /\ Called => /\ extraction = Thrown(UnsupportedTransferSyntaxError)
                     /\ result = Failed(UnsupportedTransferSyntaxError)

\* C3 amended: with an unrecognised (or absent) transfer syntax UID the
\* conversion fails, with the unsupported-transfer-syntax error when the
\* dataset has a pixel-data element and with the no-pixel-data error when it
\* has none; in both cases nothing is extracted, no decoder is invoked and no
\* image is produced.
C3_UnknownSyntaxFails ==
    dicomData.transferSyntax \notin RecognisedSyntaxes =>
        LET e == IF dicomData.hasPixelData THEN UnsupportedTransferSyntaxError
                                           ELSE NoPixelDataError
        IN  /\ extraction.status # "ok"
            /\ pc = "idle"
            /\ ~decoder.invoked
            /\ images = <<>>
            /\ Called => /\ extraction = Thrown(e)
                         /\ result = Failed(e)

C3_Witness ==
    /\ dicomData.transferSyntax = UndefinedUID
    /\ dicomData.hasPixelData
    /\ lastTransferSyntax = "default"
    /\ IsItemTag(dicomData.byteArray, dicomData.dataOffset)
    /\ extraction = Thrown(UnsupportedTransferSyntaxError)

\* C4: for the uncompressed transfer syntaxes a call of extractPixelData
\* returns needsDecompression = false and a buffer over exactly the element's
\* range (its offset and its length); the buffer holds the element's bytes as
\* they were before the call for the little-endian syntaxes, and with the two
\* bytes of every 16-bit pair exchanged for Explicit VR Big Endian.
C4_UncompressedPayload ==
    [][(/\ calls' = calls + 1
        /\ dicomData.hasPixelData
        /\ dicomData.transferSyntax \in UncompressedSyntaxes)
       => LET before == ViewBytes(dicomData.byteArray, dicomData.dataOffset,
                                  dicomData.length)
              after == ViewBytes(dicomData'.byteArray, extraction'.byteOffset,
                                 extraction'.length)
          IN  /\ extraction' = Returned(dicomData.dataOffset, dicomData.length, FALSE)
              /\ Len(after) = dicomData.length
              /\ IF dicomData.transferSyntax = ExplicitVRBigEndian
                     THEN \A p \in 1..(dicomData.length \div 2) :
                              /\ after[2 * p - 1] = before[2 * p]
                              /\ after[2 * p] = before[2 * p - 1]
                     ELSE after = before]_vars

C4_Witness ==
    /\ dicomData.transferSyntax = ExplicitVRBigEndian
    /\ calls = 1
    /\ extraction = Returned(dicomData.dataOffset, 4, FALSE)
    /\ StoredPixelData = <<1, 2, 255, 1>>
    /\ ViewBytes(dicomData.byteArray, extraction.byteOffset, extraction.length)
           = <<2, 1, 1, 255>>

\* C5: the parsed dataset's byte buffer is never modified: after any call of
\* extractPixelData every byte of dicomData.byteArray has the value it had
\* right after parseDicomData.
C5_ByteArrayUnmodified == dicomData.byteArray = parsedByteArray

\* what fixes the bytes of image k: its IHDR data and its scanlines
PNG(k) == <<images[k].png.ihdr, images[k].png.imageData>>

\* C6: extraction and reconstruction repeated on the same parsed dataset give
\* the same PNG every time, for every uncompressed transfer syntax.
C6_Idempotent ==
    dicomData.transferSyntax \in UncompressedSyntaxes =>
        \A i, j \in 1..Len(images) : PNG(i) = PNG(j)

\* an item wholly inside the buffer: the item tag, a length field and as
\* many value bytes as the field declares
CompleteItem(b, position) ==
    /\ IsItemTag(b, position)
    /\ At(b, position + 4) # Undefined
    /\ At(b, position + 5) = 0 /\ At(b, position + 6) = 0 /\ At(b, position + 7) = 0
    /\ position + 8 + At(b, position + 4) <= Len(b)
DeclaredLength(b, position) == At(b, position + 4)
ItemEnd(b, position) == position + 8 + DeclaredLength(b, position)

JPEG2000Data == dicomData.hasPixelData /\ dicomData.transferSyntax \in JPEG2000Syntaxes

\* the pixel data is a Basic Offset Table item followed by a codestream item
TableThenCodestream ==
    /\ JPEG2000Data
    /\ CompleteItem(dicomData.byteArray, dicomData.dataOffset)
    /\ CompleteItem(dicomData.byteArray,
                    ItemEnd(dicomData.byteArray, dicomData.dataOffset))

CodestreamItem == ItemEnd(dicomData.byteArray, dicomData.dataOffset)

SequenceDelimiterAt(b, position) ==
    /\ At(b, position) = 254 /\ At(b, position + 1) = 255
    /\ At(b, position + 2) = 221 /\ At(b, position + 3) = 224

CodestreamOnly ==
    /\ JPEG2000Data
    /\ CompleteItem(dicomData.byteArray, dicomData.dataOffset)
    /\ DeclaredLength(dicomData.byteArray, dicomData.dataOffset) > 0
    /\ \/ CodestreamItem = Len(dicomData.byteArray)
       \/ SequenceDelimiterAt(dicomData.byteArray, CodestreamItem)

\* C8: when the Basic Offset Table is absent and the first item is the
\* codestream, extractJPEG2000Data returns that first item's value.
C8_FirstItemReturned ==
    (CodestreamOnly /\ Called) =>
        extraction = Returned(dicomData.dataOffset + 8,
                              DeclaredLength(dicomData.byteArray, dicomData.dataOffset),
                              TRUE)

\* the item tag stands where the codestream fragment is expected: right at
\* the pixel data when no item starts it, else after the first item (a
\* declared length of 256 or more leads outside these buffers)
FragmentTagFound ==
    LET b == dicomData.byteArray
        first == dicomData.dataOffset
    IN  /\ IsItemTag(b, first)
        /\ At(b, first + 4) # Undefined
        /\ At(b, first + 5) = 0 /\ At(b, first + 6) = 0 /\ At(b, first + 7) = 0
        /\ IsItemTag(b, first + 8 + At(b, first + 4))

\* C9: for a JPEG 2000 dataset extractJPEG2000Data fails with the
\* no-JPEG2000-stream error when no item tag stands where the codestream
\* fragment is expected, and a payload it returns lies inside the buffer.
C9_TagOrFailure ==
    (JPEG2000Data /\ Called) =>
        /\ ~FragmentTagFound => extraction = Thrown(NoJPEG2000StreamError)
        /\ extraction.status = "ok" =>
               /\ extraction.needsDecompression
               /\ FragmentTagFound
               /\ extraction.byteOffset >= 0
               /\ extraction.length >= 0
               /\ extraction.byteOffset + extraction.length <= Len(dicomData.byteArray)

C9_Witness ==
    /\ JPEG2000Data
    /\ IsItemTag(dicomData.byteArray, dicomData.dataOffset)
    /\ ~FragmentTagFound
    /\ Len(dicomData.byteArray) > dicomData.dataOffset + 16
    /\ extraction = Thrown(NoJPEG2000StreamError)

\* JPEG Lossless: the first FF D8 at or after the pixel-data offset and the
\* first FF D9 after it, looked for up to the last two bytes of the buffer
MarkerAt(b, position, second) ==
    At(b, position) = 255 /\ At(b, position + 1) = second
Least(S) == CHOOSE m \in S : \A n \in S : m <= n
StartsOfImage ==
    {i \in dicomData.dataOffset..(Len(dicomData.byteArray) - 2) :
        MarkerAt(dicomData.byteArray, i, 216)}
EndsOfImage(i) ==
    {j \in (i + 2)..(Len(dicomData.byteArray) - 2) :
        MarkerAt(dicomData.byteArray, j, 217)}
FramePresent ==
    /\ dicomData.hasPixelData
    /\ dicomData.transferSyntax = JPEGLossless
    /\ StartsOfImage # {}
    /\ EndsOfImage(Least(StartsOfImage)) # {}

\* C10: with FF D8 at i and the first FF D9 after it at j,
\* extractJPEGLosslessData returns the bytes i .. j+1 with needsDecompression
\* = true, wherever the markers stand, FF D9 as the last two bytes included.
C10_FrameReturned ==
    (FramePresent /\ Called) =>
        LET i == Least(StartsOfImage)
            j == Least(EndsOfImage(i))
        IN  extraction = Returned(i, j - i + 2, TRUE)

\* ------------------------------------------------------ claims on rasters
Converted == pc = "idle" /\ calls > 0
SampleBuffer == ViewBytes(dicomData.byteArray, extraction.byteOffset,
                          extraction.length)
PixelCount == dicomData.rows * dicomData.columns
\* the buffer holds fewer than rows * columns * (bitsAllocated / 8) bytes
TooShort ==
    8 * Len(SampleBuffer) <
        PixelCount * (IF dicomData.bitsAllocated = 0
                          THEN 16 ELSE dicomData.bitsAllocated)

\* C11: convertRawToImage fails with the invalid-pixel-data-length error and
\* produces no PNG whenever the sample buffer is shorter than rows * columns *
\* (bitsAllocated / 8) bytes; when the check passes, the conversion ends
\* without a range error and every getInt16 reads two bytes inside the buffer.
C11_LengthChecked ==
    Converted =>
        IF TooShort
            THEN /\ result = Failed(InvalidPixelDataLengthError)
                 /\ images = <<>>
            ELSE /\ result = Succeeded
                 /\ Len(images) = 1
                 /\ \A o \in ReadOffsets(Len(SampleBuffer), PixelCount) :
                        0 <= o /\ o + 1 < Len(SampleBuffer)
C11_Witness ==
    /\ Converted
    /\ TooShort
    /\ dicomData.bitsAllocated = 8
    /\ PixelCount = 2
    /\ Len(SampleBuffer) = 1
    /\ result = Failed(InvalidPixelDataLengthError)

\* ----------------------------------------------------- claims on PNG files
\* the PNG file of image k
File(k) == pngDataOf(images[k].png)
BigEndian32(bytes) ==
    ((bytes[1] * 256 + bytes[2]) * 256 + bytes[3]) * 256 + bytes[4]

\* C12: for a 16-bit dataset with rows = R and columns = C whose sample
\* buffer is long enough, the PNG file holds, after the signature and the
\* length and type of the first chunk (IHDR), C as a big-endian 32-bit integer
\* in data bytes 1..4 and R in data bytes 5..8.
C12_HeaderDeclaresSize ==
    (dicomData.bitsAllocated = 16 /\ Converted /\ ~TooShort) =>
        /\ Len(images) = 1
        /\ SubSeq(File(1), 13, 16) = <<73, 72, 68, 82>>
        /\ BigEndian32(SubSeq(File(1), 17, 20)) = dicomData.columns
        /\ BigEndian32(SubSeq(File(1), 21, 24)) = dicomData.rows
C12_Witness ==
    /\ dicomData.bitsAllocated = 16
    /\ Converted
    /\ dicomData.rows = 1
    /\ dicomData.columns = 2
    /\ Len(images) = 1
    /\ SubSeq(File(1), 17, 24) = <<0, 0, 0, 2, 0, 0, 0, 1>>

\* ------------------------------------------------- claims on the window
Pixels(k) == images[k].png.pixels
\* the intensity written for pixel i (from 1) of image k
IntensityAt(k, i) ==
    images[k].png.imageData[((i - 1) \div dicomData.columns)
                                * (dicomData.columns + 1)
                            + ((i - 1) % dicomData.columns) + 2]
\* the window the conversion of image k worked with
WindowUsed(k) == Window(dicomData, Pixels(k))

\* C13: the window/level mapping clamps: with a window (center, width) of
\* width > 0, a sample below center - width/2 becomes 0, a sample above
\* center + width/2 becomes 255, a sample equal to center becomes 127, 128 or
\* 129; every intensity written lies in 0..255.
C13_WindowClamps ==
    \A k \in 1..Len(images) :
        \A i \in 1..Len(Pixels(k)) :
            LET w == WindowUsed(k)
                p == Pixels(k)[i]
                out == IntensityAt(k, i)
            IN  /\ out \in 0..255
                /\ w.width > 0 =>
                    /\ 2 * p < w.center2 - w.width => out = 0
                    /\ 2 * p > w.center2 + w.width => out = 255
                    /\ 2 * p = w.center2 => out \in {127, 128, 129}
C13_Witness ==
    /\ Converted
    /\ Len(images) = 1
    /\ WindowUsed(1) = [center2 |-> 512, width |-> 256]
    /\ Pixels(1) = <<256, 511>>
    /\ images[1].png.imageData = <<0, 128, 255>>

\* the dataset carries both WindowCenter and WindowWidth, and the width is not 0
WindowGiven ==
    /\ dicomData.windowCenter # Absent
    /\ dicomData.windowWidth # Absent
    /\ dicomData.windowWidth[1] # 0

\* C14: whenever the dataset carries both WindowCenter and WindowWidth and
\* the width is not 0, the conversion works with exactly those two values,
\* whatever the center is (0 included); only otherwise is the window computed
\* from the samples.
C14_DatasetWindowUsed ==
    \A k \in 1..Len(images) :
        (WindowGiven /\ Len(Pixels(k)) > 0) =>
            WindowUsed(k) = [center2 |-> 2 * dicomData.windowCenter[1],
                             width |-> dicomData.windowWidth[1]]

\* C15: the normalisation never divides by zero: for every dataset and
\* sample buffer (a WindowWidth of 0 and an image whose samples are all equal
\* included) the width highValue - lowValue that divides is not 0.
C15_NoDivisionByZero ==
    \A k \in 1..Len(images) :
        Len(Pixels(k)) > 0 => WindowUsed(k).width # 0

Greatest(S) == CHOOSE m \in S : \A n \in S : n <= m
Samples(k) == {Pixels(k)[i] : i \in 1..Len(Pixels(k))}

\* C16: without WindowCenter / WindowWidth in the dataset the window is
\* center = (min + max) / 2, width = max - min for the true minimum and maximum
\* of the samples, whatever their range (all-negative images included), and
\* (where the two differ) every pixel of minimum value becomes 0 and every
\* pixel of maximum value 255.
C16_AutoWindow ==
    \A k \in 1..Len(images) :
        (/\ dicomData.windowCenter = Absent
         /\ dicomData.windowWidth = Absent
         /\ Len(Pixels(k)) > 0) =>
            LET min == Least(Samples(k))
                max == Greatest(Samples(k))
            IN  /\ WindowUsed(k) = [center2 |-> min + max, width |-> max - min]
                /\ min < max =>
                       \A i \in 1..Len(Pixels(k)) :
                           /\ Pixels(k)[i] = min => IntensityAt(k, i) = 0
                           /\ Pixels(k)[i] = max => IntensityAt(k, i) = 255

\* value = raw * rescaleSlope + rescaleIntercept, the defaults being 1 and 0
Rescaled(k) ==
    LET slope == IF dicomData.rescaleSlope = Absent
                     THEN 1 ELSE dicomData.rescaleSlope[1]
        intercept == IF dicomData.rescaleIntercept = Absent
                         THEN 0 ELSE dicomData.rescaleIntercept[1]
    IN  [i \in 1..Len(Pixels(k)) |-> Pixels(k)[i] * slope + intercept]

\* C17: every raw sample is rescaled by the dataset's RescaleSlope and
\* RescaleIntercept before windowing: the window is found on, and the intensity
\* of every pixel computed from, the rescaled values.
C17_RescaleApplied ==
    \A k \in 1..Len(images) :
        \A i \in 1..Len(Pixels(k)) :
            IntensityAt(k, i) =
                Intensity(Rescaled(k)[i], Window(dicomData, Rescaled(k)))

\* the chunks of the byte string f from position pos (from 1) on, each read
\* by its own length field; a chunk that does not fit into what is left ends
\* the list as Malformed
Malformed == [ok |-> FALSE, type |-> <<>>, data |-> <<>>]
RECURSIVE ChunksFrom(_, _)
ChunksFrom(f, pos) ==
    IF pos > Len(f) THEN <<>>
    ELSE IF pos + 11 > Len(f) THEN <<Malformed>>
    ELSE \* the three high bytes are 0 for every file here
         LET length == BigEndian32(SubSeq(f, pos, pos + 3))
         IN  IF pos + 11 + length > Len(f) THEN <<Malformed>>
             ELSE <<[ok |-> TRUE, type |-> SubSeq(f, pos + 4, pos + 7),
                     data |-> SubSeq(f, pos + 8, pos + 7 + length)]>>
                      \o ChunksFrom(f, pos + 12 + length)

\* the bytes a zlib stream with one stored block inflates to
Inflated(z) == SubSeq(z, 8, Len(z) - 4)

\* C18: every PNG produced is the 8-byte signature followed by exactly three
\* chunks IHDR, IDAT, IEND, each with a length field equal to the length of its
\* data; the IHDR data is 13 bytes with bit depth 8, colour type 0 and
\* interlace 0; the image data under IDAT is rows scanlines of columns + 1
\* bytes, each starting with the filter byte 0.
C18_FileLayout ==
    \A k \in 1..Len(images) :
        \A f \in {File(k)} :
            /\ SubSeq(f, 1, 8) = <<137, 80, 78, 71, 13, 10, 26, 10>>
            /\ \A cs \in {ChunksFrom(f, 9)} :
                /\ Len(cs) = 3
                /\ \A n \in 1..3 : cs[n].ok
                /\ <<cs[1].type, cs[2].type, cs[3].type>> =
                       <<TypeBytes.IHDR, TypeBytes.IDAT, TypeBytes.IEND>>
                /\ Len(cs[1].data) = 13
                /\ cs[1].data[9] = 8
                /\ cs[1].data[10] = 0
                /\ cs[1].data[13] = 0
                /\ cs[3].data = <<>>
                /\ \A raw \in {Inflated(cs[2].data)} :
                    /\ Len(raw) = dicomData.rows * (dicomData.columns + 1)
                    /\ \A y \in 0..(dicomData.rows - 1) :
                           raw[y * (dicomData.columns + 1) + 1] = 0
C18_Witness ==
    /\ Converted
    /\ dicomData.rows = 1
    /\ dicomData.columns = 2
    /\ Len(images) = 1
    /\ Len(File(1)) = 8 + (12 + 13) + (12 + 14) + 12
    /\ Inflated(ChunksFrom(File(1), 9)[2].data) = <<0, 0, 255>>

\* ------------------------------------------------- claims on chunk CRCs
\* exclusive or of two 16-bit values
Xor16(x, y) ==
    LET Bit(p) == ((((x \div p) % 2) + ((y \div p) % 2)) % 2) * p
    IN  Bit(1) + Bit(2) + Bit(4) + Bit(8) + Bit(16) + Bit(32) + Bit(64)
            + Bit(128) + Bit(256) + Bit(512) + Bit(1024) + Bit(2048)
            + Bit(4096) + Bit(8192) + Bit(16384) + Bit(32768)
\* the standard CRC-32 of a byte sequence, computed bit by bit on an unsigned
\* 32-bit register kept as <<high 16 bits, low 16 bits>>: register all ones,
\* each byte XORed into the low end, eight right shifts with the reflected
\* polynomial EDB88320 XORed in when a one falls out, final XOR all ones
StandardCRC32(bytes) ==
    LET poly == <<60856, 33568>>
        Shift[hi \in Nat, lo \in Nat, k \in Nat] ==
            IF k = 0 THEN <<hi, lo>>
            ELSE IF lo % 2 = 1
                THEN Shift[Xor16(hi \div 2, poly[1]),
                           Xor16(((hi % 2) * 32768) + (lo \div 2), poly[2]),
                           k - 1]
            ELSE Shift[hi \div 2, ((hi % 2) * 32768) + (lo \div 2), k - 1]
        Bytes[hi \in Nat, lo \in Nat, i \in Nat] ==
            IF i > Len(bytes) THEN <<hi, lo>>
            ELSE Bytes[Shift[hi, Xor16(lo, bytes[i]), 8][1],
                       Shift[hi, Xor16(lo, bytes[i]), 8][2], i + 1]
        register == Bytes[65535, 65535, 1]
    IN  <<Xor16(register[1], 65535), Xor16(register[2], 65535)>>
\* the big-endian bytes of a register <<high, low>>
RegisterBytes(r) == <<r[1] \div 256, r[1] % 256, r[2] \div 256, r[2] % 256>>
\* what the CRC of the created chunk covers
Covered(data) == TypeBytes[chunk.type] \o data
Trailer == SubSeq(chunk.bytes, Len(chunk.bytes) - 3, Len(chunk.bytes))

\* C19: the last four bytes of every chunk createPNGChunk returns are the
\* big-endian standard CRC-32 of the chunk's type bytes followed by its data
\* bytes, and replacing any single data byte by another value gives a
\* different CRC.  The empty IEND chunk ends with its well-known CRC AE 42 60 82.
C19_StandardCRC ==
    chunk.bytes # <<>> =>
        /\ Trailer = RegisterBytes(StandardCRC32(Covered(chunk.data)))
        /\ \A crc \in {calculateCRC(Covered(chunk.data))} :
               \A i \in 1..Len(chunk.data) :
                   \A v \in {0, 1, 2, 127, 128, 254, 255} \ {chunk.data[i]} :
                       calculateCRC(Covered([chunk.data EXCEPT ![i] = v])) # crc
        /\ (chunk.type = "IEND" /\ chunk.data = <<>>) =>
               Trailer = <<174, 66, 96, 130>>
\* an IDAT chunk with data bytes has been created
C19_Witness ==
    /\ chunk.bytes # <<>>
    /\ chunk.type = "IDAT"
    /\ Len(chunk.data) = MaxChunkData
    /\ chunk.data[1] = 255

\* ------------------------------------------------ claims on decoder runs
\* this step ran the external tool
ToolRan ==
    /\ pc = "extracted"
    /\ pc' = "idle"
    /\ decoder'.invoked
    /\ decoder'.call = calls
\* this step is the decode step of a call
DecodeStep ==
    /\ pc = "extracted"
    /\ pc' = "idle"
    /\ (extraction.needsDecompression \/ lastTransferSyntax = JPEGLossless)

\* C20: a decode step succeeds only if the tool exited without error and
\* left a non-empty output file; in every other case convertToImage fails with
\* an error that carries what the tool wrote to stderr, and no image is
\* returned or written to the target path.
C20_DecodeFailurePropagates ==
    [][/\ (DecodeStep /\ result'.status = "ok") =>
              (ToolRan /\ decoder'.outcome = "ok")
       /\ (ToolRan /\ decoder'.outcome # "ok") =>
              /\ result'.status = "error"
              /\ result'.detail = decoder'.stderr
              /\ images' = images
              /\ vault' = vault]_vars

\* ------------------------------------ claims on extractJPEGLosslessData
LosslessCalled ==
    /\ Called
    /\ dicomData.hasPixelData
    /\ dicomData.transferSyntax = JPEGLossless
\* FF D8 somewhere from the pixel-data offset on and FF D9 somewhere after it,
\* anywhere up to the end of the buffer
MarkerPairPresent ==
    \E i \in dicomData.dataOffset..(Len(dicomData.byteArray) - 2) :
        /\ MarkerAt(dicomData.byteArray, i, 216)
        /\ \E j \in (i + 2)..(Len(dicomData.byteArray) - 2) :
               MarkerAt(dicomData.byteArray, j, 217)
Payload ==
    ViewBytes(dicomData.byteArray, extraction.byteOffset, extraction.length)

\* C25: extractJPEGLosslessData always ends, by returning or by throwing; it
\* throws the no-JPEG-Lossless-frame error whenever the bytes from the
\* pixel-data offset to the end of the buffer hold no FF D8 followed later by
\* FF D9; and a payload it returns starts with FF D8 and ends with FF D9.
C25_ScanEndsWithFrameOrError ==
    LosslessCalled =>
        /\ extraction.status \in {"ok", "error"}
        /\ ~MarkerPairPresent =>
               extraction = Thrown(NoJPEGLosslessFrameError)
        /\ extraction.status = "ok" =>
               /\ extraction.needsDecompression
               /\ extraction.length >= 4
               /\ extraction.byteOffset >= dicomData.dataOffset
               /\ SubSeq(Payload, 1, 2) = <<255, 216>>
               /\ SubSeq(Payload, Len(Payload) - 1, Len(Payload)) = <<255, 217>>
\* the scan ended with the error on a buffer without a marker pair
C25_Witness ==
    /\ LosslessCalled
    /\ ~MarkerPairPresent
    /\ Len(dicomData.byteArray) > dicomData.dataOffset + 4
    /\ extraction = Thrown(NoJPEGLosslessFrameError)

\* ------------------------------------------------ claims on item lengths
\* n is the unsigned little-endian value of the four bytes at position
UnsignedAt(b, position, n) ==
    /\ n >= 0
    /\ n % 256 = At(b, position)
    /\ (n \div 256) % 256 = At(b, position + 1)
    /\ (n \div 65536) % 256 = At(b, position + 2)
    /\ n \div 16777216 = At(b, position + 3)

\* C26: the item lengths extractJPEG2000Data reads are the unsigned
\* little-endian values of their four bytes: the Basic Offset Table length is
\* never negative, so the position never moves backwards, and a returned
\* payload is as long as its item's length field says, top byte >= 0x80
\* included.
C26_ItemLengthsUnsigned ==
    (JPEG2000Data /\ Called) =>
        /\ IsItemTag(dicomData.byteArray, dicomData.dataOffset) =>
               UnsignedAt(dicomData.byteArray, dicomData.dataOffset + 4,
                          ReadItemLength(dicomData.byteArray,
                                         dicomData.dataOffset))
        /\ extraction.status = "ok" =>
               UnsignedAt(dicomData.byteArray, extraction.byteOffset - 4,
                          extraction.length)

\* ------------------------------------- claims on convertToImage calls
Settled(t) == tasks[t].pc = "settled"
OwnSyntax(call) ==
    IF call.file.dicomData.transferSyntax = UndefinedUID
        THEN "default" ELSE call.file.dicomData.transferSyntax
\* what the call returns or throws when it runs alone and nothing fails
AloneResult(call) ==
    LET d == call.file.dicomData
        e == extractPixelData(d)
        payload == Written(ViewBytes(ByteArrayAfterExtract(d),
                                     e.byteOffset, e.length))
        route == Route(OwnSyntax(call), e.needsDecompression)
    IN  IF e.status # "ok" THEN Threw(e.error)
        ELSE IF route = "raw"
            THEN ReturnedImage(Reconstructed("raw", payload, FileOf(call)))
        ELSE IF route = "magick"
            THEN ReturnedImage(MagickPNG(ToolOutput("magick", payload)))
        ELSE ReturnedImage(Reconstructed(
                 "decoded",
                 ToolOutput(getDicomConverter(OwnSyntax(call)).utility, payload),
                 FileOf(call)))

\* C21: of calls running together on different files, each one ends as it
\* would have ended alone, whatever the interleaving, and the transfer syntax
\* runConverter reads is the one the call itself stored.
C21_CallsIndependent ==
    \A t \in DOMAIN tasks :
        /\ Settled(t) => tasks[t].result = AloneResult(tasks[t])
        /\ tasks[t].syntaxRead \in {"none", OwnSyntax(tasks[t])}

Extracted(call) == extractPixelData(call.file.dicomData)
RegisteredLeft(call) ==
    {call.tempFiles[i] : i \in 1..Len(call.tempFiles)}
        \cap {f.path : f \in tempDir}

\* C23: convertRawToImage is never given a payload that still needs decoding:
\* when extractPixelData returned needsDecompression = true, what reaches
\* convertRawToImage is the file the external decoder wrote from the payload,
\* read after the decoder ran and its output was verified, never the payload.
C23_DecodedBeforeReconstruction ==
    \A t \in DOMAIN tasks :
        LET call == tasks[t]
        IN  (call.reconstructed # NoContent /\ Extracted(call).needsDecompression)
                => /\ call.utility = "opj_decompress"
                   /\ call.reconstructed = ToolOutput(call.utility, call.payload)
                   /\ call.reconstructed # call.payload
                   /\ call.pc \in {"converted", "cleanup", "settled"}
\* a decoded JPEG 2000 payload was reconstructed and the call returned
C23_Witness ==
    \E t \in DOMAIN tasks :
        /\ Settled(t)
        /\ Extracted(tasks[t]).needsDecompression
        /\ tasks[t].reconstructed.tool = "opj_decompress"
        /\ tasks[t].result.status = "ok"
        /\ tasks[t].result.image.pixelData = tasks[t].reconstructed

\* C27 as stated: when a call has settled, none of the temporary files it
\* registered exists, and the call ended as the try block ended.
C27_TempFilesRemoved ==
    \A t \in DOMAIN tasks :
        Settled(t) =>
            /\ RegisteredLeft(tasks[t]) = {}
            /\ tasks[t].result = tasks[t].pending

\* C27 amended: when a call has settled, none of the temporary files it
\* registered exists unless their unlink failed; a failing unlink leaves the
\* call's result what it is without the failure.
C27_TempFilesRemovedUnlessUnlinkFails ==
    \A t \in DOMAIN tasks :
        Settled(t) =>
            /\ tasks[t].fault # "unlinkFails" => RegisteredLeft(tasks[t]) = {}
            /\ tasks[t].fault = "unlinkFails" =>
                   tasks[t].result = AloneResult(tasks[t])
            /\ tasks[t].result = tasks[t].pending
\* a call that registered two files and threw has settled with both removed
C27_Witness ==
    \E t \in DOMAIN tasks :
        /\ Settled(t)
        /\ Len(tasks[t].tempFiles) = 2
        /\ tasks[t].cleaned = 2
        /\ tasks[t].result.status = "error"
        /\ tempDir = EmptyTempDir

\* ---------------------------------------------------------------- C22
\* the files processBatch works on: those of the series it converts
Processed(f) == batch.status[f] \in {"converted", "skipped", "failed"}
InConvertedSeries(f) ==
    \E k \in DOMAIN batch.seriesGroups :
        /\ f \in batch.seriesGroups[k].files
        /\ ~isStructuredReport(batch.seriesGroups[k].dicomData)

\* C22: in processBatch a file that fails to parse or to convert fails alone:
\* processBatch is never rejected because of it, and once the import is done
\* every file of a converted series has been converted, skipped or reported
\* as failed
C22_FileFailureIsLocal ==
    /\ batch.phase = "failed" => batch.error # "parseDicom failed"
    /\ batch.phase = "done" =>
           \A f \in DOMAIN batch.files : InConvertedSeries(f) => Processed(f)

\* ---------------------------------------------------------------- C24
\* C24: convertToImage is never called for a file whose SOP Class is one of
\* the three structured-report classes
C24_ReportsNeverConverted ==
    \A f \in batch.called : ~isStructuredReport(batch.files[f])

\* ---------------------------------------------------------------- C28
NoteOf(k) == IF isStructuredReport(batch.seriesGroups[k].dicomData) THEN 0 ELSE 1

\* C28: a series note is created only when every conversion of the series has
\* settled and, with GIFs enabled, the GIF has been attempted; a series the
\* loop is through has exactly one note unless it is a report, GIF made or
\* not, and no series ever has two; study notes come after all the series
C28_NotesAfterConversions ==
    /\ [](\A k \in DOMAIN batch.notes :
             /\ batch.notes[k] <= 1
             /\ k <= batch.processedSeries => batch.notes[k] = NoteOf(k))
    /\ [](batch.studyNotes > 0 =>
             batch.processedSeries = Len(batch.seriesGroups))
    /\ [][(batch.phase = "series" /\ batch'.notes # batch.notes) =>
             /\ \A f \in Current(batch).files : Processed(f)
             /\ batch.createAnimatedGif => batch.gif # "not attempted"]_vars

\* a series of two files, one of them failed, whose GIF failed, has its note
C28_Witness ==
    /\ batch.phase = "series"
    /\ batch.step = "noted"
    /\ batch.gif = "failed"
    /\ batch.notes[batch.processedSeries + 1] = 1
    /\ \E f, g \in Current(batch).files :
          batch.status[f] = "failed" /\ batch.status[g] = "converted"

\* ---------------------------------------------------------------- C30
\* C30: the percentages reported during an import never decrease; the first
\* is 20, those of the series lie within 20..90, and 100 is reported once, as
\* the last report of an import that went through all its series and study
\* notes; an import that fails reports no 100
C30_ProgressReports ==
    LET reports == batch.reports
    IN  /\ \A i, j \in DOMAIN reports : i <= j => reports[i] <= reports[j]
        /\ reports # <<>> => reports[1] = 20
        /\ \A i \in DOMAIN reports :
              IF batch.phase = "done" /\ i = Len(reports)
                  THEN reports[i] = 100
                  ELSE 20 <= reports[i] /\ reports[i] <= 90
        /\ batch.phase = "done" =>
              /\ Len(reports) = Len(batch.seriesGroups) + 2
              /\ batch.processedSeries = Len(batch.seriesGroups)
              /\ batch.studyNotes = Len(batch.studyGroups)

\* an import of two series has reported 20, 55, 90 and 100
C30_Witness ==
    /\ batch.phase = "done"
    /\ batch.reports = <<20, 55, 90, 100>>

\* ---------------------------------------------------------------- C29
\* C29: the import modal has at most one import in flight: while a
\* convertFolder call runs the start button is hidden and the cancel button
\* shown; and the progress callback of a cancelled import never changes the
\* progress bar or the progress text
C29_OneImportInFlight ==
    /\ [](Cardinality(Running(modal)) <= 1)
    /\ []((modal.open /\ Running(modal) # {}) =>
             modal.startButton = "none" /\ modal.cancelButton = "block")
    /\ [][\A i \in Running(modal) :
             (modal.imports[i].cancelled
                 /\ modal'.imports[i].reported > modal.imports[i].reported)
             => /\ modal'.progressBar = modal.progressBar
                /\ modal'.progressText = modal.progressText]_vars

====
